---- MODULE Spec2Model ----
(***************************************************************************)
(* A model of the reool connection pool: the inner pool (idle container,   *)
(* waiter queue, counters), the managed handle's destructor, the           *)
(* connection-creation loop and the round-robin multi-node checkout.       *)
(***************************************************************************)
EXTENDS Integers, Sequences, FiniteSets, TLC

(* ------------------------------ bounds --------------------------------- *)
NumPools == 2
NumCallers == 3
NumChans == 2
MaxConns == 2
MaxDesired == 2
MaxLimit == 0
MaxTimeout == 1
MaxQueuedRequests == 2
MaxSentinels == 2
MaxAttempt == 2
MaxCount == 2
UsizeModulus == 1024
MinDesired == 1

PoolIds == 1 .. NumPools
Callers == 1 .. NumCallers
Chans == 1 .. NumChans

(* Option<usize> / Option<Duration> written as -1 for None *)
None == 0 - 1

(* ------------------------------ handles -------------------------------- *)
(* Managed<T>: id names the wrapped connection, inner_pool the pool the    *)
(* weak reference points to; value is Option<T> as a flag and              *)
(* checked_out_at is Option<Instant> as a flag.                            *)
NoHandle ==
    [id |-> 0, inner_pool |-> 0, checked_out_at |-> FALSE, value |-> FALSE,
     marked_for_kill |-> FALSE]

(* Managed::fresh *)
fresh(k, p) ==
    [id |-> k, inner_pool |-> p, checked_out_at |-> FALSE, value |-> TRUE,
     marked_for_kill |-> FALSE]

(* mutant of fetch_add: the counter is stepped by two *)
fetch_add_two(x) == (x + 2) % UsizeModulus

fetch_add(x) == (x + 1) % UsizeModulus

fetch_sub(x) == (x + UsizeModulus - 1) % UsizeModulus

VARIABLES
    pools,      \* [PoolIds -> InnerPool]: idle, waiting, the four counters, config
    new_conn,   \* [PoolIds -> creation loop]: queued RequestNewConn, loop position
    callers,    \* [Callers -> a checkout in progress / the handle the caller holds]
    chan,       \* [Chans -> the Managed sitting in a one-shot channel, or NoHandle]
    count,      \* the multi-node round-robin counter
    flavour,    \* RedisPoolFlavour: "Empty", "Shared" or "PerNode"
    first_tries, \* [PoolIds -> how many multi-node checkouts tried the pool first]
    nodes,      \* the number of inner pools of this deployment
    nextId,     \* the next connection the factory will produce
    under_lock, \* what the latest locked section did while it held the core mutex
    dropped,    \* the owner has dropped the pool (every clone of it)
    env,        \* the CONNECT_TO environment variable
    connect_to, \* what get_connect_to returned
    config,     \* the Config handed to the constructor
    built       \* what the constructor returned and created

(* the owner's side: the environment, the configuration, the construction *)
(* and the end of the pool                                                 *)
owner == <<dropped, env, connect_to, config, built>>

vars == <<pools, new_conn, callers, chan, count, flavour, first_tries, nodes, nextId,
          under_lock, owner>>

(* ------------------------------ waiters -------------------------------- *)
Checkout(ch) == [kind |-> "Checkout", ch |-> ch]

ReducePoolSize == [kind |-> "ReducePoolSize", ch |-> 0]

(* the receiving half of channel ch is still owned by a checkout future *)
ReceiverAlive(ch) == \E c \in Callers : callers[c].rx = ch

InQueue(ch) == \E p \in PoolIds : \E i \in 1 .. Len(pools[p].waiting) : pools[p].waiting[i].ch = ch

FreeChans == {ch \in Chans : chan[ch] = NoHandle /\ ~ReceiverAlive(ch) /\ ~InQueue(ch)}

(* oneshot::channel(): the model names the new channel by the least unused name *)
NewChan == IF FreeChans = {} THEN 0 ELSE CHOOSE ch \in FreeChans : \A o \in FreeChans : ch <= o

Sentinels(p) == Cardinality({i \in 1 .. Len(pools[p].waiting) : pools[p].waiting[i].kind = "ReducePoolSize"})

(* ------------------------------ callers -------------------------------- *)
(* st: free, waiting (the future is pending on channel rx), failed (the    *)
(* future has resolved with error res and is not dropped yet), holding,    *)
(* checking_in (inside check_in, before the lock), mc_try (in the loop of  *)
(* the multi-node checkout); tried: the inner pools the multi-node loop    *)
(* has called check_out on for this checkout, in order                     *)
FreeCaller ==
    [st |-> "free", pool |-> 0, rx |-> 0, h |-> NoHandle, res |-> "", timeout |-> None,
     age |-> 0, elapsed |-> 0, multi |-> FALSE, cnt |-> 0, attempts_left |-> 0,
     tried |-> <<>>]

(* ------------------------- InnerPool: counters ------------------------- *)
notify_checked_out(pl) == [pl EXCEPT !.in_flight_connections = fetch_add(@)]

(* mutant of notify_checked_in_returned_connection: a returned handle      *)
(* stays counted as in flight                                              *)
notify_checked_in_returned_connection_keeps(pl) == pl

notify_checked_in_returned_connection(pl) == [pl EXCEPT !.in_flight_connections = fetch_sub(@)]

notify_checked_in_new_connection(pl) == [pl EXCEPT !.pool_size = fetch_add(@)]

(* mutant of notify_connection_dropped: in_flight is not decremented *)
notify_connection_dropped_keeps_in_flight(pl) == [pl EXCEPT !.pool_size = fetch_sub(@)]

notify_connection_dropped(pl) ==
    [pl EXCEPT !.pool_size = fetch_sub(@), !.in_flight_connections = fetch_sub(@)]

(* mutant of notify_connection_killed: the kill is counted twice *)
notify_connection_killed_twice(pl) == [pl EXCEPT !.pool_size = fetch_sub(fetch_sub(@))]

notify_connection_killed(pl) == [pl EXCEPT !.pool_size = fetch_sub(@)]

notify_idle_connections_changed(pl, v) == [pl EXCEPT !.idle_connections = v]

notify_waiting_queue_length(pl, len) == [pl EXCEPT !.waiting_for_checkout = len]

(* mutant of idle_pop: the handle is handed out but stays in idle *)
idle_pop_keeps(idle) == [taken |-> idle[Len(idle)], rest |-> idle]

(* ------------------------ InnerPool: check_out ------------------------- *)
(* Vec::pop: the handle pushed last *)
idle_pop(idle) == [taken |-> idle[Len(idle)], rest |-> SubSeq(idle, 1, Len(idle) - 1)]

(* mutant of limit_reached: only the checkouts whose receiver is alive     *)
(* count toward the limit                                                  *)
limit_reached_live(pl) ==
    /\ pl.wait_queue_limit /= None
    /\ Cardinality({i \in 1 .. Len(pl.waiting) :
                       pl.waiting[i].kind = "Checkout" /\ ReceiverAlive(pl.waiting[i].ch)})
           > pl.wait_queue_limit

(* the wait queue limit test of check_out *)
limit_reached(pl) == pl.wait_queue_limit /= None /\ Len(pl.waiting) > pl.wait_queue_limit

(* mutant of push_back: the new waiter goes to the front of the queue *)
push_front(waiting, one) == <<one>> \o waiting

(* VecDeque::push_back *)
push_back(waiting, one) == Append(waiting, one)

(* check_out under the lock, with ch the channel it would create: the new  *)
(* pool, the outcome and the handle handed out                             *)
check_out(pl, ch) ==
    IF pl.idle /= <<>>
    THEN LET got == idle_pop(pl.idle) IN
         [out |-> "Ready",
          pool |-> notify_checked_out(
                       notify_idle_connections_changed([pl EXCEPT !.idle = got.rest], Len(got.rest))),
          managed |-> [got.taken EXCEPT !.checked_out_at = TRUE]]
    ELSE IF limit_reached(pl)
    THEN [out |-> "QueueLimitReached",
          pool |-> notify_idle_connections_changed(pl, 0),
          managed |-> NoHandle]
    ELSE LET queued == push_back(pl.waiting, Checkout(ch)) IN
         [out |-> "Enqueued",
          pool |-> notify_waiting_queue_length(
                       notify_idle_connections_changed([pl EXCEPT !.waiting = queued], 0),
                       Len(queued)),
          managed |-> NoHandle]

(* ------------------------- InnerPool: check_in ------------------------- *)
(* the counter update check_in makes before it takes the lock *)
check_in_notify(pl, managed) ==
    IF managed.checked_out_at
    THEN notify_checked_in_returned_connection(pl)
    ELSE notify_checked_in_new_connection(pl)

(* mutant of fulfill: a handle offered to an abandoned waiter is dropped   *)
(* on the floor instead of being handed back                               *)
fulfill_loses(one, managed) ==
    IF one.kind = "Checkout"
    THEN [res |-> "fulfilled", managed |-> [managed EXCEPT !.checked_out_at = TRUE]]
    ELSE [res |-> "killed",
          managed |-> [managed EXCEPT !.checked_out_at = FALSE, !.marked_for_kill = TRUE]]

(* mutant of fulfill: a ReducePoolSize waiter hands the handle on instead  *)
(* of marking it for kill                                                  *)
fulfill_sentinel_passes(one, managed) ==
    IF one.kind = "Checkout" /\ ReceiverAlive(one.ch)
    THEN [res |-> "fulfilled", managed |-> [managed EXCEPT !.checked_out_at = TRUE]]
    ELSE [res |-> "not_fulfilled", managed |-> [managed EXCEPT !.checked_out_at = FALSE]]

(* Waiting::fulfill: what becomes of the handle offered to one waiter *)
fulfill(one, managed) ==
    IF one.kind = "Checkout"
    THEN IF ReceiverAlive(one.ch)
         THEN [res |-> "fulfilled", managed |-> [managed EXCEPT !.checked_out_at = TRUE]]
         ELSE [res |-> "not_fulfilled", managed |-> [managed EXCEPT !.checked_out_at = FALSE]]
    ELSE [res |-> "killed",
          managed |-> [managed EXCEPT !.checked_out_at = FALSE, !.marked_for_kill = TRUE]]

(* mutant of pop_front: the waiter enqueued last is taken *)
pop_front_takes_last(waiting) ==
    [one |-> waiting[Len(waiting)], rest |-> SubSeq(waiting, 1, Len(waiting) - 1)]

(* VecDeque::pop_front *)
pop_front(waiting) == [one |-> Head(waiting), rest |-> Tail(waiting)]

(* the while-let loop of check_in: offer the handle to the waiters in turn *)
RECURSIVE fulfill_loop(_, _, _)
fulfill_loop(waiting, to_fulfill, skipped) ==
    IF waiting = <<>>
    THEN [res |-> "idle", waiting |-> <<>>, managed |-> to_fulfill, ch |-> 0, skipped |-> skipped]
    ELSE LET nxt == pop_front(waiting)
             f == fulfill(nxt.one, to_fulfill)
         IN  IF f.res = "not_fulfilled"
             THEN fulfill_loop(nxt.rest, f.managed, skipped + 1)
             ELSE [res |-> f.res, waiting |-> nxt.rest, managed |-> f.managed,
                   ch |-> nxt.one.ch, skipped |-> skipped]

(* mutant of none_fulfilled: the handle no waiter took is not kept *)
none_fulfilled_loses(left, managed) ==
    notify_waiting_queue_length(left, Len(left.waiting))

(* check_in after the loop ran out of waiters: the handle goes to idle *)
none_fulfilled(left, managed) ==
    LET idle == Append(left.idle, managed) IN
    notify_waiting_queue_length(
        notify_idle_connections_changed([left EXCEPT !.idle = idle], Len(idle)),
        Len(left.waiting))

(* mutant of check_in: the handle goes to idle whoever is waiting *)
check_in_to_idle(pl, managed) ==
    LET idle == Append(pl.idle, managed) IN
    [res |-> "idle", ch |-> 0, managed |-> managed, skipped |-> 0,
     pool |-> notify_idle_connections_changed([pl EXCEPT !.idle = idle], Len(idle))]

(* check_in under the lock: the new pool, where the handle went, and the   *)
(* channel it was sent into                                                *)
check_in(pl, managed) ==
    IF pl.waiting = <<>>
    THEN LET idle == Append(pl.idle, managed) IN
         [res |-> "idle", ch |-> 0, managed |-> managed, skipped |-> 0,
          pool |-> notify_idle_connections_changed([pl EXCEPT !.idle = idle], Len(idle))]
    ELSE LET r == fulfill_loop(pl.waiting, managed, 0)
             left == [pl EXCEPT !.waiting = r.waiting]
         IN  [res |-> r.res, ch |-> r.ch, managed |-> r.managed, skipped |-> r.skipped,
              pool |->
                CASE r.res = "fulfilled" ->
                         notify_waiting_queue_length(notify_checked_out(left), Len(r.waiting))
                  [] r.res = "killed" ->
                         notify_waiting_queue_length(notify_connection_killed(left), Len(r.waiting))
                  [] OTHER -> none_fulfilled(left, r.managed)]

(* mutant of remove_conn: the sentinel is queued although a handle is idle *)
remove_conn_always_queues(pl) ==
    [pl EXCEPT !.waiting = push_back(@, ReducePoolSize)]

(* mutant of remove_conn: every idle handle is taken, one kill is counted *)
remove_conn_takes_all(pl) ==
    IF pl.idle /= <<>>
    THEN notify_connection_killed([pl EXCEPT !.idle = <<>>])
    ELSE [pl EXCEPT !.waiting = push_back(@, ReducePoolSize)]

(* ------------------------ InnerPool: remove_conn ----------------------- *)
remove_conn(pl) ==
    IF pl.idle /= <<>>
    THEN notify_connection_killed([pl EXCEPT !.idle = idle_pop(pl.idle).rest])
    ELSE [pl EXCEPT !.waiting = push_back(@, ReducePoolSize)]

(* mutant of drop_parcel: a handle whose connection was taken out is       *)
(* checked in like a sound one                                             *)
drop_parcel_returns_defective(managed) ==
    IF managed.marked_for_kill THEN "Killed" ELSE "Alive"

(* mutant of drop_parcel: a handle marked for kill is treated like one     *)
(* without its connection, whose replacement the destructor requests       *)
drop_parcel_kill_requests(managed) ==
    IF managed.marked_for_kill \/ ~managed.value THEN "Dropped" ELSE "Alive"

(* ----------------------------- Managed::drop --------------------------- *)
(* which parcel the destructor hands to the pool *)
drop_parcel(managed) ==
    IF managed.marked_for_kill THEN "Killed"
    ELSE IF managed.value THEN "Alive"
    ELSE "Dropped"

(* what happens inside the locked section when the handle goes out of      *)
(* scope while the guard of the core mutex is still alive: its destructor  *)
(* runs ("drop"), and with it a send of RequestNewConn or a second lock of *)
(* the mutex if that is the parcel's way                                   *)
destroyed_locked(managed) ==
    LET parcel == drop_parcel(managed) IN
    {"drop"} \cup (IF parcel = "Dropped" THEN {"send"} ELSE {})
             \cup (IF parcel = "Alive" THEN {"lock"} ELSE {})

(* ------------------------------ initial state -------------------------- *)
Limits == {None} \cup (0 .. MaxLimit)

(* InnerPool::new *)
new_pool(desired, limit) ==
    [idle |-> <<>>, waiting |-> <<>>, pool_size |-> 0, in_flight_connections |-> 0,
     waiting_for_checkout |-> 0, idle_connections |-> 0,
     desired_pool_size |-> desired, wait_queue_limit |-> limit]

(* ------------------------ environment and Config ----------------------- *)
(* ActivationOrder *)
ActivationOrders == {"LiFo", "FiFo"}

(* env::var: Err(NotPresent), or Ok(value) with the characters of value *)
NotPresent == [present |-> FALSE, value |-> <<>>]

(* get_connect_to has not been called *)
NotRead == [res |-> "NotRead", parts |-> <<>>]

(* Config as the constructors read it; connect_to_nodes is the number of   *)
(* nodes given                                                             *)
Config(desired, limit, multiplier, n, order) ==
    [desired_pool_size |-> desired, reservation_limit |-> limit,
     pool_per_node_multiplier |-> multiplier, connect_to_nodes |-> n,
     activation_order |-> order]

(* no constructor has run *)
NotBuilt ==
    [res |-> "NotBuilt", by |-> "", pools |-> 0, loops |-> 0, desired_pool_size |-> 0,
     reservation_limit |-> None]

(* a constructor returned Ok: it made pools inner pools, each with its     *)
(* creation loop and with PoolConfig {desired_pool_size, reservation_limit} *)
Built(n, desired, limit) ==
    [res |-> "Ok", by |-> "", pools |-> n, loops |-> n, desired_pool_size |-> desired,
     reservation_limit |-> limit]

(* the owner's side of a deployment of n inner pools that has just been    *)
(* built from a Config that names order                                    *)
Constructed(n, desired, limit, order) ==
    /\ under_lock = {}
    /\ dropped = FALSE
    /\ env = NotPresent
    /\ connect_to = NotRead
    /\ config = Config(desired, limit, 1, n, order)
    /\ built = Built(n, desired, limit)

(* mutant of InitNodes: the loop of Pool::new stops one request short *)
InitNodes_one_short(f, n, desired, limit) ==
    /\ flavour = f
    /\ nodes = n
    /\ pools = [p \in PoolIds |-> new_pool(IF p <= n THEN desired ELSE 0, limit)]
    /\ new_conn = [p \in PoolIds |->
                      [queue |-> IF p <= n THEN desired - 1 ELSE 0, pc |-> "idle", attempt |-> 0,
                       h |-> NoHandle]]
    /\ callers = [c \in Callers |-> FreeCaller]
    /\ chan = [ch \in Chans |-> NoHandle]
    /\ count = 0
    /\ first_tries = [p \in PoolIds |-> 0]
    /\ nextId = 1
    /\ Constructed(n, desired, limit, "LiFo")

(* Pool::new on each of n nodes: the pool, its creation loop, and one      *)
(* RequestNewConn per desired connection                                   *)
InitNodes(f, n, desired, limit) ==
    /\ flavour = f
    /\ nodes = n
    /\ pools = [p \in PoolIds |-> new_pool(IF p <= n THEN desired ELSE 0, limit)]
    /\ new_conn = [p \in PoolIds |->
                      [queue |-> IF p <= n THEN desired ELSE 0, pc |-> "idle", attempt |-> 0,
                       h |-> NoHandle]]
    /\ callers = [c \in Callers |-> FreeCaller]
    /\ chan = [ch \in Chans |-> NoHandle]
    /\ count = 0
    /\ first_tries = [p \in PoolIds |-> 0]
    /\ nextId = 1
    /\ Constructed(n, desired, limit, "LiFo")

(* a shared pool of MaxDesired connections *)
Init == \E limit \in Limits : InitNodes("Shared", 1, MaxDesired, limit)

(* ------------------------------ checkouts ------------------------------ *)
(* a new checkout is made by the least caller that is not busy with one *)
NewCaller ==
    LET free == {c \in Callers : callers[c].st = "free"} IN
    IF free = {} THEN 0 ELSE CHOOSE c \in free : \A o \in free : c <= o

(* the checkout on one inner pool has failed with error kind: a single-pool *)
(* checkout resolves with it, the multi-node loop goes on to the next       *)
(* sibling                                                                  *)
Failed(b, kind) ==
    IF b.multi
    THEN [b EXCEPT !.st = "mc_try", !.attempts_left = @ - 1, !.rx = 0, !.pool = 0, !.age = 0,
                   !.h = NoHandle, !.res = ""]
    ELSE [FreeCaller EXCEPT !.st = "failed", !.res = kind, !.elapsed = b.elapsed,
                            !.timeout = b.timeout]

Holding(p, managed) == [FreeCaller EXCEPT !.st = "holding", !.pool = p, !.h = managed]

(* caller c, whose record is b, calls check_out on inner pool p *)
CallCheckOut(c, p, b) ==
    LET ch == NewChan
        r == check_out(pools[p], ch)
    IN  /\ r.out = "Enqueued" => ch /= 0
        /\ pools' = [pools EXCEPT ![p] = r.pool]
        /\ callers' = [callers EXCEPT ![c] =
                          CASE r.out = "Ready" -> Holding(p, r.managed)
                            [] r.out = "Enqueued" ->
                                   [b EXCEPT !.st = "waiting", !.pool = p, !.rx = ch, !.age = 0]
                            [] OTHER -> Failed(b, r.out)]
        /\ under_lock' = {}
        /\ UNCHANGED <<new_conn, chan, count, flavour, nodes, nextId>>

(* Pool::check_out on the one pool of a single-node deployment *)
CheckOut(c, t) ==
    /\ ~dropped
    /\ c = NewCaller
    /\ flavour = "Shared"
    /\ CallCheckOut(c, 1, [FreeCaller EXCEPT !.timeout = t])
    /\ UNCHANGED <<first_tries, owner>>

(* the checkout future is polled and the channel holds a handle *)
Receive(c) ==
    LET b == callers[c] IN
    /\ b.st = "waiting"
    /\ chan[b.rx] /= NoHandle
    /\ callers' = [callers EXCEPT ![c] = Holding(b.pool, chan[b.rx])]
    /\ chan' = [chan EXCEPT ![b.rx] = NoHandle]
    /\ UNCHANGED <<pools, new_conn, count, flavour, first_tries, under_lock, owner, nodes, nextId>>

(* Timeout::poll: the receiver is polled first, then the deadline. The     *)
(* future resolves with the error and keeps its receiver until dropped.    *)
TimeoutFires(c) ==
    LET b == callers[c] IN
    /\ b.st = "waiting"
    /\ b.timeout /= None
    /\ b.age >= b.timeout
    /\ chan[b.rx] = NoHandle
    /\ callers' = [callers EXCEPT ![c].st = "failed", ![c].res = "Timeout"]
    /\ UNCHANGED <<pools, new_conn, chan, count, flavour, first_tries, under_lock, owner, nodes, nextId>>

(* the caller's thread is inside check_in with the handle; next is what it *)
(* goes on with afterwards, why tells whose destructor runs: "" a handle   *)
(* the caller held, else the checkout future the handle was sent to        *)
CheckingIn(p, next, managed, why) ==
    [next EXCEPT !.st = "checking_in", !.pool = p, !.rx = 0, !.h = managed, !.res = why]

(* mutant of CallerDrops: the destructor goes to the pool without asking  *)
(* whether it is still there                                               *)
CallerDrops_no_upgrade(c, p, next, managed, why) ==
    LET parcel == drop_parcel(managed) IN
    /\ parcel = "Dropped" => new_conn[p].queue < MaxQueuedRequests
    /\ pools' = [pools EXCEPT ![p] =
                    CASE parcel = "Alive" -> check_in_notify(@, managed)
                      [] parcel = "Dropped" -> notify_connection_dropped(@)
                      [] OTHER -> notify_connection_killed(@)]
    /\ callers' = [callers EXCEPT ![c] =
                      IF parcel = "Alive" THEN CheckingIn(p, next, managed, why) ELSE next]
    /\ new_conn' = [new_conn EXCEPT ![p].queue = IF parcel = "Dropped" THEN @ + 1 ELSE @]

(* Managed::drop run by caller c on a handle of pool p; next is the caller *)
(* after the destructor. When the weak reference to the pool cannot be     *)
(* upgraded the connection is terminated and nothing else happens.         *)
CallerDrops(c, p, next, managed, why) ==
    LET parcel == drop_parcel(managed) IN
    IF dropped
    THEN /\ callers' = [callers EXCEPT ![c] = next]
         /\ UNCHANGED <<pools, new_conn>>
    ELSE /\ parcel = "Dropped" => new_conn[p].queue < MaxQueuedRequests
         /\ pools' = [pools EXCEPT ![p] =
                         CASE parcel = "Alive" -> check_in_notify(@, managed)
                           [] parcel = "Dropped" -> notify_connection_dropped(@)
                           [] OTHER -> notify_connection_killed(@)]
         /\ callers' = [callers EXCEPT ![c] =
                           IF parcel = "Alive" THEN CheckingIn(p, next, managed, why) ELSE next]
         /\ new_conn' = [new_conn EXCEPT ![p].queue = IF parcel = "Dropped" THEN @ + 1 ELSE @]

(* the checkout future is dropped: after it failed, or while pending by a  *)
(* caller that lost interest. A handle already in the channel is dropped   *)
(* with it.                                                                *)
DropFuture(c) ==
    LET b == callers[c]
        next == IF b.st = "failed" /\ b.multi THEN Failed(b, b.res) ELSE FreeCaller
    IN  /\ b.st \in {"waiting", "failed"}
        /\ IF b.rx = 0
           THEN /\ callers' = [callers EXCEPT ![c] = next]
                /\ UNCHANGED <<pools, new_conn, chan>>
           ELSE /\ chan' = [chan EXCEPT ![b.rx] = NoHandle]
                /\ IF chan[b.rx] = NoHandle
                   THEN /\ callers' = [callers EXCEPT ![c] = next]
                        /\ UNCHANGED <<pools, new_conn>>
                   ELSE CallerDrops(c, b.pool, next, chan[b.rx],
                                    IF b.st = "failed" THEN b.res ELSE "Cancelled")
        /\ UNCHANGED <<count, flavour, first_tries, under_lock, owner, nodes, nextId>>

(* the caller drops the handle it holds, having taken the connection out   *)
(* of it when it found the connection broken                               *)
DropHandle(c, broken) ==
    /\ callers[c].st = "holding"
    /\ CallerDrops(c, callers[c].pool, FreeCaller,
                   [callers[c].h EXCEPT !.value = ~broken], "")
    /\ UNCHANGED <<chan, count, flavour, first_tries, under_lock, owner, nodes, nextId>>

(* check_in, from the lock on, in the thread of caller c *)
CheckInLocked(c) ==
    LET b == callers[c]
        r == check_in(pools[b.pool], b.h)
    IN  /\ b.st = "checking_in"
        /\ pools' = [pools EXCEPT ![b.pool] = r.pool]
        /\ chan' = IF r.res = "fulfilled" THEN [chan EXCEPT ![r.ch] = r.managed] ELSE chan
        /\ callers' = [callers EXCEPT ![c] =
                          IF b.multi
                          THEN [b EXCEPT !.st = "mc_try", !.pool = 0, !.h = NoHandle, !.res = ""]
                          ELSE FreeCaller]
        /\ under_lock' = IF r.res = "killed" THEN destroyed_locked(r.managed) ELSE {}
        /\ UNCHANGED <<new_conn, count, flavour, first_tries, owner, nodes, nextId>>

(* Pool::remove_connection *)
RemoveConn(p) ==
    /\ p <= nodes
    /\ pools[p].idle = <<>> => Sentinels(p) < MaxSentinels
    /\ ~dropped
    /\ pools' = [pools EXCEPT ![p] = remove_conn(@)]
    /\ under_lock' = IF pools[p].idle /= <<>>
                     THEN destroyed_locked(
                              [idle_pop(pools[p].idle).taken EXCEPT !.marked_for_kill = TRUE])
                     ELSE {}
    /\ UNCHANGED <<new_conn, callers, chan, count, flavour, first_tries, owner, nodes, nextId>>

(* mutant of StartCreate: the stream takes the next request while the      *)
(* creation it started before is still going on                            *)
StartCreate_eager(p) ==
    /\ ~dropped
    /\ new_conn[p].pc \in {"idle", "connecting", "backoff"}
    /\ new_conn[p].queue > 0
    /\ new_conn' = [new_conn EXCEPT ![p].queue = @ - 1, ![p].pc = "connecting", ![p].attempt = 1]
    /\ UNCHANGED <<pools, callers, chan, count, flavour, first_tries, under_lock, owner, nodes, nextId>>

(* --------------------------- creation loop ----------------------------- *)
(* the stream takes the next RequestNewConn and starts create_new_managed *)
StartCreate(p) ==
    /\ ~dropped
    /\ new_conn[p].pc = "idle"
    /\ new_conn[p].queue > 0
    /\ new_conn' = [new_conn EXCEPT ![p].queue = @ - 1, ![p].pc = "connecting", ![p].attempt = 1]
    /\ UNCHANGED <<pools, callers, chan, count, flavour, first_tries, under_lock, owner, nodes, nextId>>

(* the factory succeeds; the fresh Managed is dropped by the stream's map, *)
(* which checks it in                                                      *)
FactoryOk(p) ==
    /\ new_conn[p].pc = "connecting"
    /\ nextId <= MaxConns
    /\ pools' = [pools EXCEPT ![p] = check_in_notify(@, fresh(nextId, p))]
    /\ new_conn' = [new_conn EXCEPT ![p].pc = "checking_in", ![p].h = fresh(nextId, p)]
    /\ nextId' = nextId + 1
    /\ UNCHANGED <<callers, chan, count, flavour, first_tries, under_lock, owner, nodes>>

(* mutant of FactoryErr: the loop gives the request up when the factory    *)
(* fails                                                                   *)
FactoryErr_gives_up(p) ==
    /\ new_conn[p].pc = "connecting"
    /\ new_conn[p].attempt < MaxAttempt
    /\ new_conn' = [new_conn EXCEPT ![p].attempt = 0, ![p].pc = "idle"]
    /\ UNCHANGED <<pools, callers, chan, count, flavour, first_tries, under_lock, owner, nodes, nextId>>

(* the factory fails; the loop retries after the backoff, or at once when  *)
(* the strategy gives none                                                 *)
FactoryErr(p) ==
    /\ new_conn[p].pc = "connecting"
    /\ new_conn[p].attempt < MaxAttempt
    /\ \E backoff \in BOOLEAN :
          new_conn' = [new_conn EXCEPT ![p].attempt = @ + 1,
                                       ![p].pc = IF backoff THEN "backoff" ELSE "connecting"]
    /\ UNCHANGED <<pools, callers, chan, count, flavour, first_tries, under_lock, owner, nodes, nextId>>

BackoffElapsed(p) ==
    /\ new_conn[p].pc = "backoff"
    /\ new_conn' = [new_conn EXCEPT ![p].pc = "connecting"]
    /\ UNCHANGED <<pools, callers, chan, count, flavour, first_tries, under_lock, owner, nodes, nextId>>

(* check_in of the fresh handle, from the lock on, in the creation task *)
CreatorCheckIn(p) ==
    LET r == check_in(pools[p], new_conn[p].h) IN
    /\ new_conn[p].pc = "checking_in"
    /\ pools' = [pools EXCEPT ![p] = r.pool]
    /\ chan' = IF r.res = "fulfilled" THEN [chan EXCEPT ![r.ch] = r.managed] ELSE chan
    /\ new_conn' = [new_conn EXCEPT ![p].pc = "idle", ![p].attempt = 0, ![p].h = NoHandle]
    /\ under_lock' = IF r.res = "killed" THEN destroyed_locked(r.managed) ELSE {}
    /\ UNCHANGED <<callers, count, flavour, first_tries, owner, nodes, nextId>>

(* ------------------------------- time ---------------------------------- *)
Timed(c) == callers[c].st = "waiting" /\ callers[c].timeout /= None

(* one timer tick passes for every checkout that waits with a deadline; a  *)
(* deadline that is due is served before the next tick                     *)
Tick ==
    /\ \E c \in Callers : Timed(c)
    /\ \A c \in Callers : Timed(c) => callers[c].age < callers[c].timeout
    /\ callers' = [c \in Callers |->
                      IF Timed(c)
                      THEN [callers[c] EXCEPT !.age = @ + 1, !.elapsed = @ + 1]
                      ELSE callers[c]]
    /\ UNCHANGED <<pools, new_conn, chan, count, flavour, first_tries, under_lock, owner, nodes, nextId>>

(* mutant of sibling: the attempt number does not enter the index *)
sibling_stuck(cnt, attempts_left, len) == cnt % len

(* mutant of sibling: the siblings are taken in increasing order *)
sibling_increasing(cnt, attempts_left, len) == (cnt + (len - attempts_left)) % len

(* ------------------------- multi-node checkout ------------------------- *)
(* the sibling tried when attempts_left tries remain *)
sibling(cnt, attempts_left, len) == (cnt + attempts_left) % len

(* mutant of MultiCheckOut: the counter is taken before the pools are      *)
(* looked at                                                               *)
MultiCheckOut_counts_first(c, t) ==
    /\ ~dropped
    /\ c = NewCaller
    /\ flavour = "PerNode"
    /\ count < MaxCount
    /\ count' = fetch_add(count)
    /\ callers' = [callers EXCEPT ![c] =
                      IF nodes = 0
                      THEN [FreeCaller EXCEPT !.st = "failed", !.res = "NoPool"]
                      ELSE [FreeCaller EXCEPT !.st = "mc_try", !.multi = TRUE, !.cnt = count,
                                              !.attempts_left = nodes, !.timeout = t]]
    /\ UNCHANGED <<pools, new_conn, chan, flavour, first_tries, under_lock, owner, nodes, nextId>>

(* mutant of MultiCheckOut: the loop is given one attempt too many *)
MultiCheckOut_one_more(c, t) ==
    /\ ~dropped
    /\ c = NewCaller
    /\ flavour = "PerNode"
    /\ nodes > 0
    /\ count < MaxCount
    /\ count' = fetch_add(count)
    /\ callers' = [callers EXCEPT ![c] =
                      [FreeCaller EXCEPT !.st = "mc_try", !.multi = TRUE, !.cnt = count,
                                         !.attempts_left = nodes + 1, !.timeout = t]]
    /\ UNCHANGED <<pools, new_conn, chan, flavour, first_tries, under_lock, owner, nodes, nextId>>

(* Inner::check_out_explicit_timeout up to the loop *)
MultiCheckOut(c, t) ==
    /\ ~dropped
    /\ c = NewCaller
    /\ flavour = "PerNode"
    /\ IF nodes = 0
       THEN /\ callers' = [callers EXCEPT ![c] =
                              [FreeCaller EXCEPT !.st = "failed", !.res = "NoPool"]]
            /\ UNCHANGED count
       ELSE /\ count < MaxCount
            /\ count' = fetch_add(count)
            /\ callers' = [callers EXCEPT ![c] =
                              [FreeCaller EXCEPT !.st = "mc_try", !.multi = TRUE, !.cnt = count,
                                                 !.attempts_left = nodes, !.timeout = t]]
    /\ UNCHANGED <<pools, new_conn, chan, flavour, first_tries, under_lock, owner, nodes, nextId>>

(* one turn of the loop: give up, or check out from the next sibling *)
MultiTry(c) ==
    LET b == callers[c]
        p == sibling(b.cnt, b.attempts_left, nodes) + 1
    IN  /\ b.st = "mc_try"
        /\ IF b.attempts_left = 0
           THEN /\ callers' = [callers EXCEPT ![c] =
                                  [FreeCaller EXCEPT !.st = "failed", !.res = "NoConnection",
                                                     !.elapsed = b.elapsed,
                                                     !.timeout = b.timeout,
                                                     !.tried = b.tried]]
                /\ UNCHANGED <<pools, new_conn, chan, count, flavour, first_tries, under_lock, owner, nodes, nextId>>
           ELSE /\ CallCheckOut(c, p, [b EXCEPT !.tried = Append(@, p)])
                /\ first_tries' = IF b.tried = <<>>
                                  THEN [first_tries EXCEPT ![p] = @ + 1]
                                  ELSE first_tries
                /\ UNCHANGED owner

(* ------------------------------- facade -------------------------------- *)
(* mutant of EmptyCheckOut: the facade without a pool hands the call to an *)
(* inner pool                                                              *)
EmptyCheckOut_enqueues(c, t) ==
    /\ ~dropped
    /\ c = NewCaller
    /\ flavour = "Empty"
    /\ CallCheckOut(c, 1, [FreeCaller EXCEPT !.timeout = t])
    /\ UNCHANGED <<first_tries, owner>>

(* RedisPool::check_out and check_out_explicit_timeout on the Empty        *)
(* variant: a future that is already failed                                *)
EmptyCheckOut(c, t) ==
    /\ ~dropped
    /\ c = NewCaller
    /\ flavour = "Empty"
    /\ callers' = [callers EXCEPT ![c] = [FreeCaller EXCEPT !.st = "failed", !.res = "NoPool"]]
    /\ UNCHANGED <<pools, new_conn, chan, count, flavour, first_tries, under_lock, owner, nodes, nextId>>

(* --------------------------- specifications ---------------------------- *)
(* one inner pool; a deadline of 0 may be found due at any poll *)
Next ==
    \/ \E c \in Callers : \E t \in {None, 0} : CheckOut(c, t)
    \/ \E c \in Callers : Receive(c)
    \/ \E c \in Callers : TimeoutFires(c)
    \/ \E c \in Callers : DropFuture(c)
    \/ \E c \in Callers : \E broken \in BOOLEAN : DropHandle(c, broken)
    \/ \E c \in Callers : CheckInLocked(c)
    \/ \E p \in PoolIds : RemoveConn(p)
    \/ \E p \in PoolIds : StartCreate(p)
    \/ \E p \in PoolIds : FactoryOk(p)
    \/ \E p \in PoolIds : CreatorCheckIn(p)

Spec == Init /\ [][Next]_vars

(* ============================ properties =============================== *)
ConnIds == 1 .. (MaxConns + 1)

Positions(p) == 1 .. Len(pools[p].idle)

IdlePlaces(k) == {<<p, i>> \in PoolIds \X (1 .. MaxConns + 1) : i \in Positions(p) /\ pools[p].idle[i].id = k}

ChanPlaces(k) == {ch \in Chans : chan[ch].id = k}

(* callers that own the handle of connection k: holding it, or inside its  *)
(* destructor                                                              *)
CallerPlaces(k) == {c \in Callers : callers[c].h.id = k}

CreatorPlaces(k) == {p \in PoolIds : new_conn[p].h.id = k}

Places(k) ==
    Cardinality(IdlePlaces(k)) + Cardinality(ChanPlaces(k)) + Cardinality(CallerPlaces(k))
        + Cardinality(CreatorPlaces(k))

(* no thread is between the counter update of check_in and its locked part *)
Quiescent ==
    /\ \A c \in Callers : callers[c].st /= "checking_in"
    /\ \A p \in PoolIds : new_conn[p].pc /= "checking_in"

(* C1: exclusive use. Every connection the factory has produced is in at   *)
(* most one place (a position of idle, a one-shot channel, one caller, the *)
(* creation task handing it over): never held by two callers, never idle   *)
(* and checked out, never twice in idle; and connections not yet produced  *)
(* are nowhere.                                                            *)
ExclusiveUse ==
    \A k \in ConnIds : Places(k) <= 1 /\ (k >= nextId => Places(k) = 0)

(* C1 witness: a returned connection lies idle while the other one sits in *)
(* a waiter's channel and a third party holds nothing of either            *)
ExclusiveUseWitness ==
    \E k1, k2 \in ConnIds :
        /\ k1 /= k2
        /\ \E pi \in IdlePlaces(k1) : pools[pi[1]].idle[pi[2]].checked_out_at
        /\ ChanPlaces(k2) /= {}

(* C2: conservation. Whenever no check_in is part-way, the idle handles    *)
(* plus in_flight equal pool_size, in every inner pool.                    *)
Conservation ==
    Quiescent =>
        \A p \in PoolIds :
            Len(pools[p].idle) + pools[p].in_flight_connections = pools[p].pool_size

(* C2 witness: after a broken handle was dropped (its replacement is       *)
(* requested), one connection is left and it is checked out                *)
ConservationWitness ==
    /\ Quiescent
    /\ nextId = 3
    /\ pools[1].pool_size = 1
    /\ pools[1].in_flight_connections = 1
    /\ new_conn[1].queue = 1

(* the connections of pool p, wherever they are *)
Owned(p) ==
    {k \in ConnIds :
        \/ \E pi \in IdlePlaces(k) : pi[1] = p
        \/ \E ch \in ChanPlaces(k) : chan[ch].inner_pool = p
        \/ \E c \in CallerPlaces(k) : callers[c].h.inner_pool = p
        \/ \E q \in CreatorPlaces(k) : q = p}

(* the connection is inside check_in, past the counter update and before   *)
(* the lock: in the creation task (fresh) or in a caller's thread          *)
InTransit(k) ==
    \/ \E p \in PoolIds : new_conn[p].pc = "checking_in" /\ new_conn[p].h.id = k
    \/ \E c \in Callers : callers[c].st = "checking_in" /\ callers[c].h.id = k

(* the connection is where the claim wants it: idle, handed out (in the    *)
(* channel of a checkout that still owns the receiver, or held by a        *)
(* caller), or gone, which PoolSizeExact says is counted off pool_size     *)
Settled(k) ==
    \/ IdlePlaces(k) /= {}
    \/ \E ch \in ChanPlaces(k) : ReceiverAlive(ch)
    \/ \E c \in CallerPlaces(k) : callers[c].st = "holding"
    \/ Places(k) = 0

(* pool_size counts exactly the connections of the pool that exist: one    *)
(* leaves the count only by a kill or a drop                               *)
PoolSizeExact == \A p \in PoolIds : pools[p].pool_size = Cardinality(Owned(p))

(* every check_in that has begun runs on to its end: the destructor is     *)
(* synchronous code and the lock is free again after each locked section   *)
Fairness ==
    /\ \A c \in Callers : WF_vars(CheckInLocked(c))
    /\ \A p \in PoolIds : WF_vars(CreatorCheckIn(p))

(* the callers of a run with two checkouts at a time *)
Pair == Callers \ {NumCallers}

(* the steps of Next with two checkouts at a time *)
LiveNext ==
    \/ \E c \in Pair : \E t \in {None, 0} : CheckOut(c, t)
    \/ \E c \in Pair : Receive(c)
    \/ \E c \in Pair : TimeoutFires(c)
    \/ \E c \in Pair : DropFuture(c)
    \/ \E c \in Pair : \E broken \in BOOLEAN : DropHandle(c, broken)
    \/ \E c \in Pair : CheckInLocked(c)
    \/ \E p \in PoolIds : RemoveConn(p)
    \/ \E p \in PoolIds : StartCreate(p)
    \/ \E p \in PoolIds : FactoryOk(p)
    \/ \E p \in PoolIds : CreatorCheckIn(p)

LiveSpec == Init /\ [][LiveNext]_vars /\ Fairness

(* C3: no lost handles. A connection the factory produced is counted in    *)
(* pool_size for as long as it exists, and whenever it is on its way into  *)
(* the pool (fresh, returned, or reclaimed from an abandoned checkout) it  *)
(* eventually is idle, handed out, or killed and counted off.              *)
NoLostHandles ==
    /\ [](PoolSizeExact /\ \A k \in ConnIds : Settled(k) \/ InTransit(k))
    /\ \A k \in ConnIds : InTransit(k) ~> Settled(k)

(* C3 witness: a handle that was sent to a checkout whose future was then  *)
(* dropped is on its way back into the pool                                *)
NoLostHandlesWitness ==
    \E c \in Callers :
        /\ callers[c].st = "checking_in"
        /\ callers[c].res \in {"Timeout", "Cancelled"}
        /\ callers[c].h.checked_out_at

(* the waiters of pool p that are sent a handle by the step *)
Served(p) ==
    {i \in 1 .. Len(pools[p].waiting) :
        /\ pools[p].waiting[i].kind = "Checkout"
        /\ chan[pools[p].waiting[i].ch] = NoHandle
        /\ chan'[pools[p].waiting[i].ch] /= NoHandle}

(* what one step may do to the waiter queue of pool p: nothing; add one    *)
(* waiter at the back; or take the first n waiters off the front, and then *)
(* only the last one taken can have been sent the handle, all those taken  *)
(* before it being checkouts whose receiver was gone                       *)
FifoStep(p) ==
    LET w == pools[p].waiting
        w2 == pools'[p].waiting
        n == Len(w) - Len(w2)
    IN  \/ w2 = w /\ Served(p) = {}
        \/ Len(w2) = Len(w) + 1 /\ SubSeq(w2, 1, Len(w)) = w /\ Served(p) = {}
        \/ /\ n > 0
           /\ w2 = SubSeq(w, n + 1, Len(w))
           /\ \A i \in Served(p) :
                 /\ i = n
                 /\ \A j \in 1 .. (n - 1) :
                       w[j].kind = "Checkout" /\ ~ReceiverAlive(w[j].ch)

(* C4: FIFO waiter fairness. Waiters join the queue at the back and are    *)
(* offered handles from the front: a waiter is sent a handle only when     *)
(* every waiter enqueued before it has been served or has given up, so of  *)
(* two waiters that both get a handle the earlier one gets it first.       *)
FifoOrder == [][\A p \in PoolIds : FifoStep(p)]_vars

(* C4 witness: the earlier of two waiting checkouts has been sent a handle *)
(* while the later one is still queued                                     *)
FifoOrderWitness ==
    \E c1, c2 \in Callers :
        /\ callers[c1].st = "waiting"
        /\ chan[callers[c1].rx] /= NoHandle
        /\ callers[c2].st = "waiting"
        /\ InQueue(callers[c2].rx)

(* C5: reservation cap. When reservation_limit is set to L, the waiter    *)
(* queue of an inner pool never holds more than L entries.                 *)
ReservationCap ==
    \A p \in PoolIds :
        pools[p].wait_queue_limit /= None => Len(pools[p].waiting) <= pools[p].wait_queue_limit

(* the step is a check_out by caller c *)
CheckOutBy(c) == callers[c].st = "free" /\ callers'[c].st /= "free"

(* pool p has no idle handle and its waiter queue holds at least the limit *)
AtReservationLimit(p) ==
    /\ pools[p].idle = <<>>
    /\ pools[p].wait_queue_limit /= None
    /\ Len(pools[p].waiting) >= pools[p].wait_queue_limit

(* C6: a check_out on a pool with no idle handle, a reservation limit L    *)
(* and at least L waiters already queued fails at once with the            *)
(* reservation-limit error and leaves the queue, the idle container and    *)
(* the counters as they were.                                             *)
ReservationLimitReached ==
    [][\A c \in Callers :
          (CheckOutBy(c) /\ AtReservationLimit(1)) =>
              /\ callers'[c].st = "failed"
              /\ callers'[c].res = "QueueLimitReached"
              /\ pools' = pools
              /\ chan' = chan]_vars

(* in_flight counts the handles callers hold and those sent to a waiter    *)
(* that has not yet taken them                                             *)
InFlightExact ==
    \A p \in PoolIds :
        pools[p].in_flight_connections =
            Cardinality({c \in Callers : callers[c].st = "holding" /\ callers[c].pool = p})
            + Cardinality({ch \in Chans : chan[ch] /= NoHandle /\ chan[ch].inner_pool = p})

(* the locked part of a check_in of handle h on pool p ends in this step,  *)
(* in a caller's thread or in the creation task                            *)
CheckInEnds(p, h) ==
    \/ \E c \in Callers :
          /\ callers[c].st = "checking_in" /\ callers[c].pool = p /\ callers[c].h = h
          /\ callers'[c].st /= "checking_in"
    \/ /\ new_conn[p].pc = "checking_in" /\ new_conn[p].h = h
       /\ new_conn'[p].pc /= "checking_in"

(* where the pool put handle h in the step: with a waiter whose receiver   *)
(* lives, counted in flight; in idle, not counted; or with a               *)
(* ReducePoolSize waiter, which takes it out of the pool                   *)
Reclaimed(p, h) ==
    LET pl == pools[p]
        pl2 == pools'[p]
    IN  \/ /\ \E ch \in Chans :
                 /\ chan[ch] = NoHandle /\ chan'[ch].id = h.id
                 /\ ReceiverAlive(ch)
                 /\ chan' = [chan EXCEPT ![ch] = chan'[ch]]
           /\ pl2.in_flight_connections = pl.in_flight_connections + 1
           /\ pl2.idle = pl.idle /\ pl2.pool_size = pl.pool_size
        \/ /\ Len(pl2.idle) = Len(pl.idle) + 1
           /\ pl2.idle = Append(pl.idle, pl2.idle[Len(pl2.idle)])
           /\ pl2.idle[Len(pl2.idle)].id = h.id
           /\ pl2.in_flight_connections = pl.in_flight_connections
           /\ pl2.pool_size = pl.pool_size
           /\ chan' = chan
        \/ /\ Len(SelectSeq(pl2.waiting, LAMBDA w : w.kind = "ReducePoolSize"))
                 = Len(SelectSeq(pl.waiting, LAMBDA w : w.kind = "ReducePoolSize")) - 1
           /\ pl2.pool_size = pl.pool_size - 1
           /\ pl2.in_flight_connections = pl.in_flight_connections
           /\ pl2.idle = pl.idle
           /\ chan' = chan

(* the checkout future of caller c goes away in this step with a handle    *)
(* sent to it that it never took                                           *)
DroppedUnreceived(c) ==
    /\ callers[c].st \in {"waiting", "failed"}
    /\ callers[c].rx /= 0
    /\ chan[callers[c].rx] /= NoHandle
    /\ callers'[c].st \notin {"waiting", "failed", "holding"}

(* C8: timeout/fulfilment race. A handle sent to a checkout future that is *)
(* dropped without taking it goes back into check_in and stops counting as *)
(* in flight; a handle checked in while abandoned waiters are queued skips *)
(* them and goes to a later waiter or to idle; in_flight counts exactly    *)
(* the handles held or sent and not yet taken.                             *)
RaceReclaim ==
    [][/\ \A c \in Callers :
             DroppedUnreceived(c) =>
                 /\ callers'[c].st = "checking_in"
                 /\ callers'[c].h = chan[callers[c].rx]
                 /\ callers'[c].pool = callers[c].pool
                 /\ chan'[callers[c].rx] = NoHandle
                 /\ pools'[callers[c].pool].in_flight_connections
                        = pools[callers[c].pool].in_flight_connections - 1
       /\ \A p \in PoolIds : \A k \in ConnIds :
             (\E h \in {callers[c].h : c \in Callers} \cup {new_conn[p].h} :
                  h.id = k /\ CheckInEnds(p, h))
                 => \E h \in {callers[c].h : c \in Callers} \cup {new_conn[p].h} :
                        h.id = k /\ Reclaimed(p, h)
       /\ InFlightExact']_vars

(* C8 witness: a checkout future that timed out is dropped with the handle *)
(* that was sent to it afterwards, and the handle is on its way back, with *)
(* an abandoned waiter queued in front of it                               *)
RaceReclaimWitness ==
    \E c \in Callers :
        /\ callers[c].st = "checking_in"
        /\ callers[c].res = "Timeout"
        /\ pools[callers[c].pool].waiting /= <<>>
        /\ ~ReceiverAlive(Head(pools[callers[c].pool].waiting).ch)

(* pool p has waiters and every one is a checkout whose receiver is gone *)
AllAbandoned(p) ==
    /\ pools[p].waiting /= <<>>
    /\ \A i \in 1 .. Len(pools[p].waiting) :
          /\ pools[p].waiting[i].kind = "Checkout"
          /\ ~ReceiverAlive(pools[p].waiting[i].ch)

TimedInit ==
    \E f \in {"Shared", "PerNode"} : \E limit \in Limits :
        InitNodes(f, IF f = "Shared" THEN 1 ELSE NumPools, MinDesired, limit)

TimedNext ==
    \/ \E c \in Pair : \E t \in {None, MaxTimeout} : CheckOut(c, t)
    \/ \E c \in Pair : \E t \in {None, MaxTimeout} : MultiCheckOut(c, t)
    \/ \E c \in Pair : MultiTry(c)
    \/ \E c \in Pair : Receive(c)
    \/ \E c \in Pair : TimeoutFires(c)
    \/ \E c \in Pair : DropFuture(c)
    \/ \E c \in Pair : \E broken \in BOOLEAN : DropHandle(c, broken)
    \/ \E c \in Pair : CheckInLocked(c)
    \/ \E p \in PoolIds : StartCreate(p)
    \/ \E p \in PoolIds : FactoryOk(p)
    \/ \E p \in PoolIds : FactoryErr(p)
    \/ \E p \in PoolIds : BackoffElapsed(p)
    \/ \E p \in PoolIds : CreatorCheckIn(p)
    \/ Tick

TimedSpec == TimedInit /\ [][TimedNext]_vars

(* the checkout of caller c was made with a deadline and has not yet       *)
(* yielded a handle                                                        *)
Pending(c) ==
    /\ callers[c].timeout /= None
    /\ callers[c].st \in {"waiting", "failed", "mc_try"}

(* the checkout of caller c has resolved with an error for the caller to   *)
(* see (not an inner checkout of the multi-node loop)                      *)
Resolved(c) == callers[c].st = "failed" /\ ~callers[c].multi

(* if there are waiters then nothing is idle *)
WaitersIdleExclusion ==
    \A p \in PoolIds : pools[p].waiting /= <<>> => pools[p].idle = <<>>

(* C7 as stated: a checkout with timeout t yields a handle no later than t *)
(* after the call or fails with the timeout error, through a single pool   *)
(* and through the multi-node pool alike, and the pool invariants hold.    *)
TimeoutMonotonicity ==
    /\ \A c \in Callers :
          Pending(c) =>
              /\ callers[c].elapsed <= callers[c].timeout
              /\ Resolved(c) => callers[c].res = "Timeout"
    /\ Conservation
    /\ WaitersIdleExclusion

(* C7 amended: through a single pool a checkout with timeout t yields a    *)
(* handle no later than t after the call, or fails with the timeout error, *)
(* or is refused at once for the reservation limit; through the multi-node *)
(* pool every sibling is tried in turn with the full timeout, so a handle  *)
(* or the failure comes no later than t times the number of siblings, and  *)
(* the failure is NoConnection; the pool invariants hold.                  *)
TimeoutMonotonicityPerPool ==
    /\ \A c \in Callers :
          Pending(c) =>
              IF flavour = "Shared"
              THEN /\ callers[c].elapsed <= callers[c].timeout
                   /\ Resolved(c) => callers[c].res \in {"Timeout", "QueueLimitReached"}
                   /\ (Resolved(c) /\ callers[c].res = "QueueLimitReached")
                          => callers[c].elapsed = 0
              ELSE /\ callers[c].elapsed <= nodes * callers[c].timeout
                   /\ callers[c].age <= callers[c].timeout
                   /\ Resolved(c) => callers[c].res = "NoConnection"
    /\ Conservation
    /\ WaitersIdleExclusion

(* C7 witness: a multi-node checkout has failed after waiting out the      *)
(* timeout on every sibling                                                *)
TimeoutMonotonicityPerPoolWitness ==
    \E c \in Callers :
        /\ flavour = "PerNode"
        /\ Pending(c) /\ Resolved(c)
        /\ callers[c].res = "NoConnection"
        /\ callers[c].elapsed = nodes * callers[c].timeout

(* --------------- checkouts that wait as long as it takes --------------- *)
(* one pool of MinDesired connections; checkouts have no deadline, no      *)
(* checkout future is dropped before it resolved, handles come back intact *)
(* and the pool is never shrunk                                            *)
ServeInit == \E limit \in Limits : InitNodes("Shared", 1, MinDesired, limit)

ServeNext ==
    \/ \E c \in Callers : CheckOut(c, None)
    \/ \E c \in Callers : Receive(c)
    \/ \E c \in Callers : callers[c].st = "failed" /\ DropFuture(c)
    \/ \E c \in Callers : DropHandle(c, FALSE)
    \/ \E c \in Callers : CheckInLocked(c)
    \/ \E p \in PoolIds : StartCreate(p)
    \/ \E p \in PoolIds : FactoryOk(p)
    \/ \E p \in PoolIds : CreatorCheckIn(p)

(* every caller that holds a handle drops it in the end, every waiter      *)
(* polls its future, the creation task and every check_in run on           *)
ServeFairness ==
    /\ \A c \in Callers : WF_vars(DropHandle(c, FALSE))
    /\ \A c \in Callers : WF_vars(Receive(c))
    /\ \A c \in Callers : WF_vars(CheckInLocked(c))
    /\ \A p \in PoolIds : WF_vars(StartCreate(p))
    /\ \A p \in PoolIds : WF_vars(FactoryOk(p))
    /\ \A p \in PoolIds : WF_vars(CreatorCheckIn(p))

ServeSpec == ServeInit /\ [][ServeNext]_vars /\ ServeFairness

(* C9: queued checkouts are eventually served. With no deadline, every     *)
(* checkout that was enqueued and is kept alive gets a handle in the end,  *)
(* and handles go to the waiters in enqueue order: the one served is       *)
(* always the one at the head of the queue.                                *)
EventuallyServed ==
    /\ \A c \in Callers : (callers[c].st = "waiting") ~> (callers[c].st = "holding")
    /\ [][\A p \in PoolIds : Served(p) \subseteq {1}]_vars

(* C9 witness: two checkouts are queued behind the one that holds the only *)
(* connection of the pool                                                  *)
EventuallyServedWitness ==
    /\ Len(pools[1].waiting) = 2
    /\ pools[1].pool_size = 1
    /\ \E c \in Callers : callers[c].st = "holding"
    /\ Cardinality({c \in Callers : callers[c].st = "waiting"}) = 2

(* ------------------- the creation loop at work ------------------------- *)
(* creation requests of pool p not yet answered by a connection: queued    *)
(* messages and the one the loop is working on                             *)
Outstanding(p) ==
    new_conn[p].queue + (IF new_conn[p].pc \in {"connecting", "backoff"} THEN 1 ELSE 0)

(* one pool of MinDesired to MaxDesired connections whose factory may fail *)
(* and whose callers may return defective handles; the pool is never       *)
(* shrunk. A defective handle is returned only while the factory can still *)
(* produce its replacement within MaxConns connections.                    *)
CreateInit ==
    \E desired \in MinDesired .. MaxDesired : \E limit \in Limits :
        InitNodes("Shared", 1, desired, limit)

CreateNext ==
    \/ \E c \in Pair : \E t \in {None, 0} : CheckOut(c, t)
    \/ \E c \in Pair : Receive(c)
    \/ \E c \in Pair : TimeoutFires(c)
    \/ \E c \in Pair : DropFuture(c)
    \/ \E c \in Pair : DropHandle(c, FALSE)
    \/ \E c \in Pair : nextId + Outstanding(1) <= MaxConns /\ DropHandle(c, TRUE)
    \/ \E c \in Pair : CheckInLocked(c)
    \/ \E p \in PoolIds : StartCreate(p)
    \/ \E p \in PoolIds : FactoryOk(p)
    \/ \E p \in PoolIds : FactoryErr(p)
    \/ \E p \in PoolIds : BackoffElapsed(p)
    \/ \E p \in PoolIds : CreatorCheckIn(p)

(* the creation task is spawned on the executor and runs on: it takes the  *)
(* next request, the backoff delay elapses, a factory that can succeed     *)
(* does, and every check_in that has begun runs to its end                 *)
CreateFairness ==
    /\ \A c \in Callers : WF_vars(CheckInLocked(c))
    /\ \A p \in PoolIds : WF_vars(StartCreate(p))
    /\ \A p \in PoolIds : WF_vars(FactoryOk(p))
    /\ \A p \in PoolIds : WF_vars(BackoffElapsed(p))
    /\ \A p \in PoolIds : WF_vars(CreatorCheckIn(p))

CreateSpec == CreateInit /\ [][CreateNext]_vars /\ CreateFairness

(* caller c drops the handle it holds and the handle is not checked in     *)
(* with its connection: the connection was taken out of it                 *)
DefectiveDrop(c) ==
    /\ callers[c].st = "holding"
    /\ callers'[c].st /= "holding"
    /\ ~(callers'[c].st = "checking_in" /\ callers'[c].h.value)

(* every handle the pool keeps or has sent to a waiter has its connection *)
NoDefectiveInPool ==
    /\ \A p \in PoolIds : \A i \in 1 .. Len(pools[p].idle) : pools[p].idle[i].value
    /\ \A ch \in Chans : chan[ch] /= NoHandle => chan[ch].value

(* C11: defective return. Dropping a checked-out handle whose connection   *)
(* is absent takes one off pool_size and one off in_flight, puts nothing   *)
(* into idle or a channel, sends one RequestNewConn, and, the factory      *)
(* succeeding in the end, pool_size comes back to the desired size.        *)
DefectiveReturn ==
    /\ [][\A c \in Callers :
             DefectiveDrop(c) =>
                 LET p == callers[c].pool IN
                 /\ callers'[c] = FreeCaller
                 /\ pools'[p].pool_size = pools[p].pool_size - 1
                 /\ pools'[p].in_flight_connections = pools[p].in_flight_connections - 1
                 /\ pools'[p].idle = pools[p].idle
                 /\ pools'[p].waiting = pools[p].waiting
                 /\ chan' = chan
                 /\ new_conn'[p] = [new_conn[p] EXCEPT !.queue = @ + 1]]_vars
    /\ []NoDefectiveInPool
    /\ \A p \in PoolIds :
          (pools[p].pool_size < pools[p].desired_pool_size)
              ~> (pools[p].pool_size = pools[p].desired_pool_size)

(* C11 witness: the only connection of the pool was returned defective,    *)
(* pool_size is down to 0 and the request for its replacement is queued    *)
DefectiveReturnWitness ==
    /\ nextId = 2
    /\ pools[1].desired_pool_size = 1
    /\ pools[1].pool_size = 0
    /\ pools[1].in_flight_connections = 0
    /\ new_conn[1].queue = 1
    /\ new_conn[1].pc = "idle"

(* ------------------------- shrinking the pool -------------------------- *)
(* one pool of MinDesired to MaxDesired connections that may be shrunk;    *)
(* handles come back with their connection                                 *)
ShrinkInit ==
    \E desired \in MinDesired .. MaxDesired : \E limit \in Limits :
        InitNodes("Shared", 1, desired, limit)

ShrinkNext ==
    \/ \E c \in Callers : \E t \in {None, 0} : CheckOut(c, t)
    \/ \E c \in Callers : Receive(c)
    \/ \E c \in Callers : TimeoutFires(c)
    \/ \E c \in Callers : DropFuture(c)
    \/ \E c \in Callers : DropHandle(c, FALSE)
    \/ \E c \in Callers : CheckInLocked(c)
    \/ \E p \in PoolIds : RemoveConn(p)
    \/ \E p \in PoolIds : StartCreate(p)
    \/ \E p \in PoolIds : FactoryOk(p)
    \/ \E p \in PoolIds : CreatorCheckIn(p)

ShrinkSpec == ShrinkInit /\ [][ShrinkNext]_vars

(* remove_conn was called once for every connection pool p has, all of     *)
(* them being out of idle, and no connection is in the making              *)
ShrinkAll(p) ==
    /\ Sentinels(p) > 0
    /\ Sentinels(p) = pools[p].pool_size
    /\ Outstanding(p) = 0
    /\ new_conn[p].pc = "idle"

(* caller c returns a handle to pool p in this step: its check_in ends *)
Returns(c, p) ==
    /\ callers[c].st = "checking_in"
    /\ callers[c].pool = p
    /\ callers'[c].st /= "checking_in"

(* the handle of the step was killed by the first ReducePoolSize waiter *)
KilledBySentinel(p) ==
    /\ pools'[p].pool_size = pools[p].pool_size - 1
    /\ Len(SelectSeq(pools'[p].waiting, LAMBDA w : w.kind = "ReducePoolSize"))
           = Sentinels(p) - 1
    /\ pools'[p].idle = <<>>
    /\ chan' = chan

(* C12 as stated: once remove_conn was called for every connection while   *)
(* all were checked out, every handle a caller returns is killed, not put  *)
(* into idle nor given to a checkout waiter, pool_size goes down by one    *)
(* each time, and the pool ends with pool_size 0, idle empty and no        *)
(* ReducePoolSize waiter left.                                             *)
ShrinkKillsEveryReturn ==
    [][\A p \in PoolIds : \A c \in Callers :
          (ShrinkAll(p) /\ Returns(c, p)) =>
              /\ KilledBySentinel(p)
              /\ (pools'[p].pool_size = 0 =>
                      pools'[p].idle = <<>> /\ Sentinels(p)' = 0)]_vars

(* a checkout whose receiver lives is queued on pool p ahead of the first  *)
(* ReducePoolSize waiter                                                   *)
LiveWaiterAhead(p) ==
    \E i \in 1 .. Len(pools[p].waiting) :
        /\ pools[p].waiting[i].kind = "Checkout"
        /\ ReceiverAlive(pools[p].waiting[i].ch)
        /\ \A j \in 1 .. (i - 1) : pools[p].waiting[j].kind = "Checkout"

(* nobody holds, awaits or is returning a handle *)
AllReturned ==
    /\ \A c \in Callers : callers[c].st \in {"free", "failed"}
    /\ \A ch \in Chans : chan[ch] = NoHandle

(* C12 amended: once remove_conn was called for every connection while all *)
(* were checked out, a handle a caller returns is killed and pool_size     *)
(* goes down by one, unless a checkout that is still awaited was queued    *)
(* before the ReducePoolSize waiter: then the handle goes to that checkout *)
(* first and pool_size stays; either way there is again one               *)
(* ReducePoolSize waiter per connection, and when every handle is back the *)
(* pool has pool_size 0, idle empty and no ReducePoolSize waiter.          *)
ShrinkKillsUnlessWaiterAhead ==
    [][\A p \in PoolIds : \A c \in Callers :
          (ShrinkAll(p) /\ Returns(c, p)) =>
              /\ IF LiveWaiterAhead(p)
                 THEN /\ pools'[p].pool_size = pools[p].pool_size
                      /\ Sentinels(p)' = Sentinels(p)
                      /\ pools'[p].idle = <<>>
                      /\ \E ch \in Chans : chan[ch] = NoHandle /\ chan'[ch].id = callers[c].h.id
                 ELSE KilledBySentinel(p)
              /\ Sentinels(p)' = pools'[p].pool_size
              /\ AllReturned' =>
                     /\ pools'[p].pool_size = 0
                     /\ pools'[p].idle = <<>>
                     /\ Sentinels(p)' = 0]_vars

(* C12 witness: both connections are checked out, remove_conn was called   *)
(* twice, and the first handle is on its way back                          *)
ShrinkKillsUnlessWaiterAheadWitness ==
    /\ ShrinkAll(1)
    /\ Sentinels(1) = 2
    /\ ~LiveWaiterAhead(1)
    /\ \E c \in Callers : callers[c].st = "checking_in" /\ callers[c].res = ""

(* the factory call of pool p's creation loop ends in this step without a  *)
(* connection                                                              *)
FactoryFailed(p) ==
    /\ new_conn[p].pc = "connecting"
    /\ <<new_conn'[p].pc, new_conn'[p].attempt>> /= <<new_conn[p].pc, new_conn[p].attempt>>
    /\ new_conn'[p].pc /= "checking_in"

(* C13: creation failures are recovered locally. After a factory error the *)
(* creation loop still works on the same request, with the next attempt    *)
(* number, at once or after the backoff; nothing a caller can see changes  *)
(* and no checkout future resolves with anything but a checkout error; and *)
(* the loop goes on until the factory succeeds.                            *)
CreationFailuresRecovered ==
    /\ [][\A p \in PoolIds :
             FactoryFailed(p) =>
                 /\ new_conn'[p].pc \in {"connecting", "backoff"}
                 /\ new_conn'[p].attempt = new_conn[p].attempt + 1
                 /\ new_conn'[p].queue = new_conn[p].queue
                 /\ callers' = callers
                 /\ chan' = chan
                 /\ pools' = pools]_vars
    /\ [](\A c \in Callers :
             callers[c].st = "failed" => callers[c].res \in {"Timeout", "QueueLimitReached"})
    /\ \A p \in PoolIds :
          (new_conn[p].pc \in {"connecting", "backoff"}) ~> (new_conn[p].pc = "checking_in")

(* C13 witness: the factory has failed once, the loop is at the second     *)
(* attempt without backoff, and a checkout is still waiting                *)
CreationFailuresRecoveredWitness ==
    /\ new_conn[1].pc = "connecting"
    /\ new_conn[1].attempt = 2
    /\ \E c \in Callers : callers[c].st = "waiting" /\ callers[c].timeout = None

(* C14: convergence to the desired size. A new pool of desired size n has  *)
(* n creation requests outstanding and no connection; pool_size plus the   *)
(* outstanding requests stays n as long as the pool is not shrunk, so      *)
(* pool_size is n whenever no request is outstanding; and with a factory   *)
(* that succeeds in the end pool_size reaches n, again after every         *)
(* defective drop.                                                         *)
Convergence ==
    /\ \A p \in PoolIds :
          pools[p].pool_size = 0 /\ new_conn[p].queue = pools[p].desired_pool_size
    /\ [](\A p \in PoolIds :
             pools[p].pool_size + Outstanding(p) = pools[p].desired_pool_size)
    /\ \A p \in PoolIds :
          (Outstanding(p) > 0)
              ~> (Outstanding(p) = 0 /\ pools[p].pool_size = pools[p].desired_pool_size)

(* C14 witness: the pool of one connection is at its size again after the  *)
(* first connection was dropped defective and replaced                     *)
ConvergenceWitness ==
    /\ nextId = 3
    /\ pools[1].desired_pool_size = 1
    /\ pools[1].pool_size = 1
    /\ Outstanding(1) = 0
    /\ new_conn[1].pc = "idle"

(* ----------------------------- the facade ------------------------------ *)
(* RedisPool in each of its variants: no pool, one shared pool, or a pool  *)
(* per node over 0 to NumPools nodes                                       *)
FacadeInit ==
    \E f \in {"Empty", "Shared", "PerNode"} : \E limit \in Limits :
        \E n \in 0 .. NumPools :
            /\ f = "Empty" => n = 0
            /\ f = "Shared" => n = 1
            /\ InitNodes(f, n, MinDesired, limit)

FacadeNext ==
    \/ \E c \in Pair : \E t \in {None, 0, MaxTimeout} : EmptyCheckOut(c, t)
    \/ \E c \in Pair : \E t \in {None, MaxTimeout} : CheckOut(c, t)
    \/ \E c \in Pair : \E t \in {None, MaxTimeout} : MultiCheckOut(c, t)
    \/ \E c \in Pair : MultiTry(c)
    \/ \E c \in Pair : Receive(c)
    \/ \E c \in Pair : TimeoutFires(c)
    \/ \E c \in Pair : DropFuture(c)
    \/ \E c \in Pair : \E broken \in BOOLEAN : DropHandle(c, broken)
    \/ \E c \in Pair : CheckInLocked(c)
    \/ \E p \in PoolIds : StartCreate(p)
    \/ \E p \in PoolIds : FactoryOk(p)
    \/ \E p \in PoolIds : FactoryErr(p)
    \/ \E p \in PoolIds : BackoffElapsed(p)
    \/ \E p \in PoolIds : CreatorCheckIn(p)
    \/ Tick

FacadeSpec == FacadeInit /\ [][FacadeNext]_vars

(* C15: facade with no pool. On the Empty variant every checkout, with or  *)
(* without an explicit timeout, fails with NoPool; nothing but the         *)
(* caller's own future ever changes: no pool, channel, creation loop or    *)
(* counter.                                                                *)
EmptyFacadeFails ==
    /\ [][flavour = "Empty" =>
             /\ \A c \in Callers :
                   (callers[c].st = "free" /\ callers'[c] /= callers[c]) =>
                       /\ callers'[c].st = "failed"
                       /\ callers'[c].res = "NoPool"
                       /\ callers'[c].rx = 0
             /\ UNCHANGED <<pools, new_conn, chan, count, first_tries, under_lock, owner, nodes, nextId>>]_vars
    /\ [](flavour = "Empty" =>
             \A c \in Callers : callers[c].st \in {"free", "failed"})

(* C15 witness: two checkouts on the Empty variant have failed with NoPool *)
EmptyFacadeFailsWitness ==
    /\ flavour = "Empty"
    /\ \A c \in Pair : callers[c].st = "failed" /\ callers[c].res = "NoPool"

(* C16: a multi-node checkout over zero inner pools fails with NoPool, the *)
(* round-robin counter is not incremented and no inner pool is tried.      *)
NoPoolsNoAttempt ==
    [][(flavour = "PerNode" /\ nodes = 0) =>
          /\ \A c \in Callers :
                (callers[c].st = "free" /\ callers'[c] /= callers[c]) =>
                    /\ callers'[c].st = "failed"
                    /\ callers'[c].res = "NoPool"
                    /\ callers'[c].tried = <<>>
          /\ count' = count
          /\ UNCHANGED <<pools, chan, first_tries, under_lock, owner>>]_vars

(* C16 witness: a checkout over zero inner pools has failed with NoPool    *)
(* and the counter is still 0                                              *)
NoPoolsNoAttemptWitness ==
    /\ flavour = "PerNode"
    /\ nodes = 0
    /\ count = 0
    /\ \E c \in Callers : callers[c].st = "failed" /\ callers[c].res = "NoPool"

(* C17: a multi-node checkout over K >= 1 inner pools whose checkout fails *)
(* on every sibling, for whatever reason, resolves with NoConnection, and  *)
(* by then check_out was called on each of the K pools exactly once; while *)
(* it runs no pool is tried twice.                                         *)
AllSiblingsTriedOnce ==
    \A c \in Callers :
        (flavour = "PerNode" /\ nodes >= 1) =>
            LET b == callers[c] IN
            /\ \A i, j \in 1 .. Len(b.tried) : b.tried[i] = b.tried[j] => i = j
            /\ \A i \in 1 .. Len(b.tried) : b.tried[i] \in 1 .. nodes
            /\ (b.st = "failed" /\ ~b.multi) =>
                   /\ b.res = "NoConnection"
                   /\ Len(b.tried) = nodes
            /\ (b.st = "failed" /\ b.multi) => b.res \in {"Timeout", "QueueLimitReached"}

(* C17 witness: a checkout has failed with NoConnection after the second   *)
(* pool, tried first, and then the first pool both failed                  *)
AllSiblingsTriedOnceWitness ==
    \E c \in Callers :
        /\ flavour = "PerNode"
        /\ nodes = 2
        /\ callers[c].st = "failed"
        /\ callers[c].res = "NoConnection"
        /\ callers[c].tried = <<2, 1>>

(* the multi-node checkouts in progress *)
InLoop == {c \in Callers : callers[c].multi}

(* those that have taken their counter value and not yet tried a pool *)
NotYetTried == {c \in InLoop : callers[c].tried = <<>>}

RECURSIVE SumFirstTries(_)
SumFirstTries(n) == IF n = 0 THEN 0 ELSE first_tries[n] + SumFirstTries(n - 1)

(* C19: round-robin uniformity. Every multi-node checkout takes one value  *)
(* of the shared counter, no two take the same, and the pool it tries      *)
(* first is that value mod K; so once the N checkouts made so far have     *)
(* each tried their first pool, every pool was tried first by floor(N/K)   *)
(* to ceil(N/K) of them.                                                   *)
RoundRobinUniform ==
    (flavour = "PerNode" /\ nodes >= 1) =>
        /\ SumFirstTries(nodes) + Cardinality(NotYetTried) = count
        /\ \A c \in InLoop :
              /\ callers[c].cnt < count
              /\ callers[c].tried /= <<>> =>
                     callers[c].tried[1] = (callers[c].cnt % nodes) + 1
              /\ \A d \in InLoop : callers[d].cnt = callers[c].cnt => d = c
        /\ NotYetTried = {} =>
              \A p \in 1 .. nodes :
                  /\ first_tries[p] >= count \div nodes
                  /\ first_tries[p] <= (count + nodes - 1) \div nodes

(* C19 witness: two checkouts over two pools, each pool tried first once *)
RoundRobinUniformWitness ==
    /\ flavour = "PerNode"
    /\ nodes = 2
    /\ count = 2
    /\ first_tries[1] = 1
    /\ first_tries[2] = 1

(* C20: a checkout with a timeout of zero that found idle empty at the     *)
(* call, and was therefore queued, never resolves to a handle, even if a   *)
(* handle is checked in right afterwards.                                  *)
ZeroTimeoutNeverServed ==
    [][\A c \in Callers :
          (callers[c].st = "waiting" /\ callers[c].timeout = 0) =>
              callers'[c].st /= "holding"]_vars

(* ----------------------------- node failover --------------------------- *)
(* the node whose factory succeeds, and the one whose factory always fails *)
HealthyNode == 1

FailingNode == 2

(* two nodes, MaxDesired connections wanted on each *)
FailoverInit == \E limit \in Limits : InitNodes("PerNode", NumPools, MaxDesired, limit)

(* the multi-node pool with callers that keep their checkouts alive: the   *)
(* only futures dropped are the failed inner checkouts the loop is done    *)
(* with                                                                    *)
FailoverNext ==
    \/ \E c \in Pair : \E t \in {None, MaxTimeout} : MultiCheckOut(c, t)
    \/ \E c \in Pair : MultiTry(c)
    \/ \E c \in Pair : Receive(c)
    \/ \E c \in Pair : TimeoutFires(c)
    \/ \E c \in Pair : callers[c].st = "failed" /\ callers[c].multi /\ DropFuture(c)
    \/ \E c \in Pair : DropHandle(c, FALSE)
    \/ \E c \in Pair : CheckInLocked(c)
    \/ \E p \in PoolIds : StartCreate(p)
    \/ FactoryOk(HealthyNode)
    \/ FactoryErr(FailingNode)
    \/ BackoffElapsed(FailingNode)
    \/ CreatorCheckIn(HealthyNode)
    \/ Tick

(* the executor runs every task on: the creation loops, the timers, the    *)
(* checkout futures and the sibling loop of a checkout that is awaited     *)
FailoverFairness ==
    /\ \A c \in Pair : WF_vars(MultiTry(c))
    /\ \A c \in Pair : WF_vars(Receive(c))
    /\ \A c \in Pair : WF_vars(TimeoutFires(c))
    /\ \A c \in Pair : WF_vars(callers[c].st = "failed" /\ callers[c].multi /\ DropFuture(c))
    /\ \A c \in Pair : WF_vars(CheckInLocked(c))
    /\ \A p \in PoolIds : WF_vars(StartCreate(p))
    /\ WF_vars(FactoryOk(HealthyNode))
    /\ WF_vars(BackoffElapsed(FailingNode))
    /\ WF_vars(CreatorCheckIn(HealthyNode))
    /\ WF_vars(Tick)

FailoverSpec == FailoverInit /\ [][FailoverNext]_vars /\ FailoverFairness

(* the healthy node has all its connections and its creation loop rests *)
HealthySettled ==
    /\ pools[HealthyNode].pool_size = MaxDesired
    /\ new_conn[HealthyNode].pc = "idle"
    /\ new_conn[HealthyNode].queue = 0

(* caller c has entered the sibling loop and not yet tried a pool *)
Starting(c) == callers[c].st = "mc_try" /\ callers[c].tried = <<>>

FromHealthy(c) == callers[c].st = "holding" /\ callers[c].pool = HealthyNode

(* C18: node failover. With one node whose factory always fails and a      *)
(* healthy node that has connections available, every checkout eventually  *)
(* succeeds with a handle from the healthy node, whatever its timeout      *)
(* (None included) and whatever the round-robin counter.                   *)
NodeFailover ==
    \A c \in Pair : (Starting(c) /\ HealthySettled) ~> FromHealthy(c)

(* the same for the checkouts made with a deadline *)
NodeFailoverWithDeadline ==
    \A c \in Pair :
        (Starting(c) /\ HealthySettled /\ callers[c].timeout /= None) ~> FromHealthy(c)

(* a checkout without deadline that is queued at the failing node stays    *)
(* there                                                                   *)
StuckAtFailingNode ==
    [][\A c \in Pair :
          (callers[c].st = "waiting" /\ callers[c].pool = FailingNode
              /\ callers[c].timeout = None) => callers'[c] = callers[c]]_vars

(* --------------------------- activation order -------------------------- *)
(* a shared pool of MaxDesired connections built from a Config with either *)
(* activation order                                                        *)
OrderInit ==
    \E order \in ActivationOrders : \E limit \in Limits :
        /\ flavour = "Shared"
        /\ nodes = 1
        /\ pools = [p \in PoolIds |-> new_pool(IF p <= 1 THEN MaxDesired ELSE 0, limit)]
        /\ new_conn = [p \in PoolIds |->
                          [queue |-> IF p <= 1 THEN MaxDesired ELSE 0, pc |-> "idle",
                           attempt |-> 0, h |-> NoHandle]]
        /\ callers = [c \in Callers |-> FreeCaller]
        /\ chan = [ch \in Chans |-> NoHandle]
        /\ count = 0
        /\ first_tries = [p \in PoolIds |-> 0]
        /\ nextId = 1
        /\ Constructed(1, MaxDesired, limit, order)

OrderSpec == OrderInit /\ [][Next]_vars

(* the step is a check_out by caller c that found a handle in idle of p *)
TakenFromIdle(c, p) ==
    /\ callers[c].st \in {"free", "mc_try"}
    /\ callers'[c].st = "holding"
    /\ callers'[c].pool = p
    /\ pools[p].idle /= <<>>

(* C21: activation order. check_out on a non-empty idle container returns  *)
(* the handle checked in most recently when activation_order is LIFO and   *)
(* the one checked in least recently when it is FIFO.                      *)
ActivationOrderHonoured ==
    [][\A c \in Callers : \A p \in PoolIds :
          TakenFromIdle(c, p) =>
              callers'[c].h.id =
                  IF config.activation_order = "LiFo"
                  THEN pools[p].idle[Len(pools[p].idle)].id
                  ELSE pools[p].idle[1].id]_vars

(* ----------------------------- constructors ---------------------------- *)
MaxBuildDesired == 4

MaxBuildLimit == 4

MaxMultiplier == 3

(* a constructor returned Err(InitializationError): nothing was created *)
InitializationError ==
    [res |-> "Err", by |-> "", pools |-> 0, loops |-> 0, desired_pool_size |-> 0,
     reservation_limit |-> None]

(* SharedPool::new: one inner pool for all the nodes *)
shared_pool_new(cfg) ==
    IF cfg.desired_pool_size = 0 THEN InitializationError
    ELSE IF cfg.connect_to_nodes = 0 THEN InitializationError
    ELSE Built(1, cfg.desired_pool_size, cfg.reservation_limit)

(* SinglePool::new: one inner pool for the one node *)
single_pool_new(cfg) ==
    IF cfg.desired_pool_size = 0 THEN InitializationError
    ELSE IF cfg.connect_to_nodes /= 1 THEN InitializationError
    ELSE Built(1, cfg.desired_pool_size, cfg.reservation_limit)

(* Inner::new: the reservation limit of each inner pool *)
new_limit(limit, multiplier) == (limit \div multiplier) + 1

(* Inner::new: the desired size of each inner pool *)
new_connections_per_pool(desired, multiplier) == (desired \div multiplier) + 1

(* Inner::new: multiplier inner pools for each node *)
inner_new(cfg) ==
    LET multiplier == cfg.pool_per_node_multiplier
        limit == IF multiplier /= 1 /\ cfg.reservation_limit /= None
                 THEN new_limit(cfg.reservation_limit, multiplier)
                 ELSE cfg.reservation_limit
        desired == IF multiplier /= 1
                   THEN new_connections_per_pool(cfg.desired_pool_size, multiplier)
                   ELSE cfg.desired_pool_size
    IN  IF multiplier = 0 THEN InitializationError
        ELSE Built(multiplier * cfg.connect_to_nodes, desired, limit)

(* the three constructors, each called on the Config once *)
SharedPoolNew ==
    /\ built = NotBuilt
    /\ built' = [shared_pool_new(config) EXCEPT !.by = "SharedPool"]
    /\ UNCHANGED <<pools, new_conn, callers, chan, count, flavour, first_tries, nodes, nextId,
                   under_lock, dropped, env, connect_to, config>>

SinglePoolNew ==
    /\ built = NotBuilt
    /\ built' = [single_pool_new(config) EXCEPT !.by = "SinglePool"]
    /\ UNCHANGED <<pools, new_conn, callers, chan, count, flavour, first_tries, nodes, nextId,
                   under_lock, dropped, env, connect_to, config>>

InnerNew ==
    /\ built = NotBuilt
    /\ built' = [inner_new(config) EXCEPT !.by = "PoolPerNode"]
    /\ UNCHANGED <<pools, new_conn, callers, chan, count, flavour, first_tries, nodes, nextId,
                   under_lock, dropped, env, connect_to, config>>

(* every Config within the bounds, and no pool yet *)
BuildInit ==
    /\ flavour = "Empty"
    /\ nodes = 0
    /\ pools = [p \in PoolIds |-> new_pool(0, None)]
    /\ new_conn = [p \in PoolIds |-> [queue |-> 0, pc |-> "idle", attempt |-> 0, h |-> NoHandle]]
    /\ callers = [c \in Callers |-> FreeCaller]
    /\ chan = [ch \in Chans |-> NoHandle]
    /\ count = 0
    /\ first_tries = [p \in PoolIds |-> 0]
    /\ nextId = 1
    /\ under_lock = {}
    /\ dropped = FALSE
    /\ env = NotPresent
    /\ connect_to = NotRead
    /\ \E desired \in 0 .. MaxBuildDesired :
       \E limit \in {None} \cup (0 .. MaxBuildLimit) :
       \E multiplier \in 0 .. MaxMultiplier :
       \E n \in 0 .. NumPools :
       \E order \in ActivationOrders :
           config = Config(desired, limit, multiplier, n, order)
    /\ built = NotBuilt

BuildNext ==
    \/ SharedPoolNew
    \/ SinglePoolNew
    \/ InnerNew

BuildSpec == BuildInit /\ [][BuildNext]_vars

(* a / b rounded up *)
Ceil(a, b) == (a + b - 1) \div b

(* C22: pool-per-node multiplier. With multiplier m > 1 each inner pool    *)
(* gets desired_pool_size ceil(desired_pool_size / m) and, when a          *)
(* reservation limit is set, the limit ceil(reservation_limit / m), for    *)
(* every positive desired_pool_size, limit and m; with m = 1 both values   *)
(* are unchanged.                                                          *)
MultiplierRoundsUp ==
    (/\ built.by = "PoolPerNode"
     /\ config.pool_per_node_multiplier >= 1
     /\ config.desired_pool_size >= 1) =>
        LET m == config.pool_per_node_multiplier IN
        /\ built.res = "Ok"
        /\ built.desired_pool_size =
               IF m > 1 THEN Ceil(config.desired_pool_size, m) ELSE config.desired_pool_size
        /\ config.reservation_limit = None => built.reservation_limit = None
        /\ config.reservation_limit >= 1 =>
               built.reservation_limit =
                   IF m > 1 THEN Ceil(config.reservation_limit, m) ELSE config.reservation_limit

(* C23: initialization errors prevent pool creation. A constructor called  *)
(* with desired_pool_size = 0 or with an empty node list, and the          *)
(* pool-per-node constructor called with pool_per_node_multiplier = 0,     *)
(* returns an InitializationError, creates no inner pool and starts no     *)
(* creation loop.                                                          *)
InitErrorsPreventCreation ==
    (/\ built /= NotBuilt
     /\ \/ config.desired_pool_size = 0
        \/ config.connect_to_nodes = 0
        \/ built.by = "PoolPerNode" /\ config.pool_per_node_multiplier = 0) =>
        /\ built.res = "Err"
        /\ built.pools = 0
        /\ built.loops = 0

(* ------------------------- the end of the pool ------------------------- *)
(* something other than the owner holds a strong reference to an inner     *)
(* pool: a creation in progress, a destructor inside check_in, or the      *)
(* future of a multi-node checkout, which borrows the pool                 *)
InUse ==
    \/ \E p \in PoolIds : new_conn[p].pc /= "idle"
    \/ \E c \in Callers : callers[c].st = "checking_in" \/ callers[c].multi

(* the owner drops the last clone of the pool while nothing else uses it:  *)
(* the inner pools are destroyed, and with them the idle handles, whose    *)
(* connections are terminated, and the senders of the queued waiters       *)
DropPool ==
    /\ ~dropped
    /\ ~InUse
    /\ dropped' = TRUE
    /\ pools' = [p \in PoolIds |-> [pools[p] EXCEPT !.idle = <<>>, !.waiting = <<>>]]
    /\ UNCHANGED <<new_conn, callers, chan, count, flavour, first_tries, nodes, nextId,
                   under_lock, env, connect_to, config, built>>

(* the inner pool is destroyed: its owner dropped it and the creation task *)
(* does not hold the last strong reference either                          *)
Gone ==
    /\ dropped
    /\ \A p \in PoolIds : new_conn[p].pc \notin {"connecting_last", "backoff_last"}

(* the sender of a pending checkout is gone with the pool: the receiver    *)
(* yields Canceled, which check_out maps to NoConnection; the Timeout that *)
(* wraps the future of a checkout with a deadline passes the error on as   *)
(* its own, and check_out maps every error of the Timeout to Timeout       *)
Canceled(c) ==
    LET b == callers[c] IN
    /\ Gone
    /\ b.st = "waiting"
    /\ chan[b.rx] = NoHandle
    /\ callers' = [callers EXCEPT ![c].st = "failed",
                                  ![c].res = IF b.timeout = None THEN "NoConnection"
                                             ELSE "Timeout"]
    /\ UNCHANGED <<pools, new_conn, chan, count, flavour, first_tries, nodes, nextId,
                   under_lock, owner>>

(* a shared pool with two callers, which the owner may drop at any time *)
GoneNext ==
    \/ \E c \in Pair : \E t \in {None, 0} : CheckOut(c, t)
    \/ \E c \in Pair : Receive(c)
    \/ \E c \in Pair : TimeoutFires(c)
    \/ \E c \in Pair : DropFuture(c)
    \/ \E c \in Pair : \E broken \in BOOLEAN : DropHandle(c, broken)
    \/ \E c \in Pair : CheckInLocked(c)
    \/ \E p \in PoolIds : RemoveConn(p)
    \/ \E p \in PoolIds : StartCreate(p)
    \/ \E p \in PoolIds : FactoryOk(p)
    \/ \E p \in PoolIds : CreatorCheckIn(p)
    \/ DropPool
    \/ \E c \in Pair : Canceled(c)

GoneSpec == Init /\ [][GoneNext]_vars

(* the step destroys a handle: one that caller c held, or one that sat in  *)
(* the channel of the checkout future c drops                              *)
HandleDestroyed(c) ==
    \/ callers[c].st = "holding" /\ callers'[c].st /= "holding"
    \/ /\ callers[c].st \in {"waiting", "failed"}
       /\ callers[c].rx /= 0
       /\ chan[callers[c].rx] /= NoHandle
       /\ chan'[callers[c].rx] = NoHandle
       /\ callers'[c].st /= "holding"

(* C24: a handle dropped after its inner pool has been destroyed simply    *)
(* discards the connection: no check_in happens, no counter changes and no *)
(* RequestNewConn is sent; and the pool can be destroyed while handles are *)
(* out, so a handle does not keep it alive.                                *)
DropAfterPoolGone ==
    [][\A c \in Callers :
          (dropped /\ HandleDestroyed(c)) =>
              /\ UNCHANGED <<pools, new_conn>>
              /\ callers'[c].st \notin {"checking_in", "holding"}
              /\ callers'[c].h = NoHandle]_vars

(* C24 witness: the pool is gone, a handle that was out when it went has   *)
(* been dropped since, and in_flight still counts it                       *)
DropAfterPoolGoneWitness ==
    /\ dropped
    /\ pools[1].in_flight_connections = 1
    /\ \A c \in Callers : callers[c].st = "free"
    /\ \A ch \in Chans : chan[ch] = NoHandle

(* ------------------------------ CONNECT_TO ----------------------------- *)
MaxEnvLen == 4

(* the characters an environment value is made of: two letters, the        *)
(* separator and a blank                                                   *)
Chars == {"a", "b", ";", " "}

(* char::is_whitespace, within Chars *)
Whitespace == {" "}

(* the values of the environment variable within the bound *)
EnvValues == UNION {[1 .. n -> Chars] : n \in 0 .. MaxEnvLen}

(* str::split(';'): the pieces between the separators, empty ones included *)
RECURSIVE split(_)
split(what) ==
    LET seps == {i \in 1 .. Len(what) : what[i] = ";"} IN
    IF seps = {} THEN <<what>>
    ELSE LET i == CHOOSE x \in seps : \A y \in seps : x <= y
         IN  <<SubSeq(what, 1, i - 1)>> \o split(SubSeq(what, i + 1, Len(what)))

(* str::trim: leading and trailing whitespace removed *)
trim(s) ==
    LET keep == {i \in 1 .. Len(s) : s[i] \notin Whitespace} IN
    IF keep = {} THEN <<>>
    ELSE SubSeq(s, CHOOSE x \in keep : \A y \in keep : x <= y,
                   CHOOSE x \in keep : \A y \in keep : x >= y)

(* the filter of parse_connect_to: |s| !s.is_empty() *)
not_is_empty(s) == s /= <<>>

(* parse_connect_to: split, filter, then trim *)
parse_connect_to(what) ==
    LET kept == SelectSeq(split(what), not_is_empty)
    IN  [i \in 1 .. Len(kept) |-> trim(kept[i])]

(* get_connect_to: Ok(None) without the variable, Ok(Some(parts)) with     *)
(* parts, Err when the variable is there and parts is empty                *)
get_connect_to(e) ==
    IF ~e.present THEN [res |-> "None", parts |-> <<>>]
    ELSE LET parts == parse_connect_to(e.value)
         IN  IF parts /= <<>> THEN [res |-> "Some", parts |-> parts]
             ELSE [res |-> "Err", parts |-> <<>>]

(* the configuration reads the variable once *)
GetConnectTo ==
    /\ connect_to = NotRead
    /\ connect_to' = get_connect_to(env)
    /\ UNCHANGED <<pools, new_conn, callers, chan, count, flavour, first_tries, nodes, nextId,
                   under_lock, dropped, env, config, built>>

(* every value of the variable within the bound, or no variable *)
ParseInit ==
    /\ flavour = "Empty"
    /\ nodes = 0
    /\ pools = [p \in PoolIds |-> new_pool(0, None)]
    /\ new_conn = [p \in PoolIds |-> [queue |-> 0, pc |-> "idle", attempt |-> 0, h |-> NoHandle]]
    /\ callers = [c \in Callers |-> FreeCaller]
    /\ chan = [ch \in Chans |-> NoHandle]
    /\ count = 0
    /\ first_tries = [p \in PoolIds |-> 0]
    /\ nextId = 1
    /\ under_lock = {}
    /\ dropped = FALSE
    /\ env \in {NotPresent} \cup {[present |-> TRUE, value |-> v] : v \in EnvValues}
    /\ connect_to = NotRead
    /\ config = Config(MinDesired, None, 1, 0, "LiFo")
    /\ built = NotBuilt

ParseNext ==
    \/ GetConnectTo

ParseSpec == ParseInit /\ [][ParseNext]_vars

(* the positions at which a segment of s starts: after a separator or at   *)
(* the beginning, and not itself a separator                               *)
SegmentStarts(s) ==
    {a \in 1 .. Len(s) : s[a] /= ";" /\ (a = 1 \/ s[a - 1] = ";")}

(* the segment of s that starts at a: up to the next separator *)
SegmentAt(s, a) ==
    LET ends == {b \in a .. Len(s) : b = Len(s) \/ s[b + 1] = ";"}
    IN  SubSeq(s, a, CHOOSE b \in ends : \A y \in ends : b <= y)

(* the non-empty segments of s in their order *)
NonEmptySegments(s) ==
    LET starts == SegmentStarts(s)
        nth(k) == CHOOSE a \in starts : Cardinality({x \in starts : x < a}) = k - 1
    IN  [k \in 1 .. Cardinality(starts) |-> SegmentAt(s, nth(k))]

(* C25: parse_connect_to returns the ';'-separated segments of its input   *)
(* in their order and omits the empty ones, so no element of the list is   *)
(* empty; get_connect_to fails when the variable is present and yields no  *)
(* node, and returns the list otherwise.                                   *)
ParseConnectTo ==
    (connect_to /= NotRead /\ env.present) =>
        /\ connect_to.parts = NonEmptySegments(env.value)
        /\ \A i \in 1 .. Len(connect_to.parts) : connect_to.parts[i] /= <<>>
        /\ connect_to.res = IF NonEmptySegments(env.value) = <<>> THEN "Err" ELSE "Some"

(* ------------------------- waiters and idle ---------------------------- *)
(* C26: waiters/idle exclusion. In every state seen under the pool lock,   *)
(* after any sequence of check_out, check_in and remove_conn, a non-empty  *)
(* waiter queue means an empty idle container.                             *)
WaitersExcludeIdle ==
    \A p \in PoolIds : Len(pools[p].waiting) > 0 => Len(pools[p].idle) = 0

(* C26 witness: a checkout and a sentinel are queued while a handle is out *)
(* and nothing is idle, after check_ins filled the pool                    *)
WaitersExcludeIdleWitness ==
    /\ Len(pools[1].waiting) = 2
    /\ \E i \in 1 .. 2 : pools[1].waiting[i].kind = "Checkout"
    /\ \E i \in 1 .. 2 : pools[1].waiting[i].kind = "ReducePoolSize"
    /\ pools[1].idle = <<>>
    /\ pools[1].pool_size = MaxDesired
    /\ \E c \in Callers : callers[c].st = "holding"

(* --------------------- killed and defective handles -------------------- *)
(* the connections of pool p that the step destroys *)
DestroyedIn(p) == {k \in Owned(p) : Places(k)' = 0}

(* C27: a handle whose connection is absent or that is marked for kill     *)
(* never re-enters idle and is never handed to a waiter: every handle in   *)
(* idle or in a channel is sound, and a connection that is gone stays      *)
(* gone; its destruction takes exactly one off pool_size.                  *)
KilledNeverReturns ==
    /\ [](/\ \A p \in PoolIds : \A i \in 1 .. Len(pools[p].idle) :
                pools[p].idle[i].value /\ ~pools[p].idle[i].marked_for_kill
          /\ \A ch \in Chans :
                chan[ch] /= NoHandle => chan[ch].value /\ ~chan[ch].marked_for_kill)
    /\ [][/\ \A k \in ConnIds : (k < nextId /\ Places(k) = 0) => Places(k)' = 0
          /\ \A p \in PoolIds :
                DestroyedIn(p) /= {} =>
                    /\ Cardinality(DestroyedIn(p)) = 1
                    /\ pools'[p].pool_size = pools[p].pool_size - 1]_vars

(* C27 witness: both connections were created; one was killed inside a     *)
(* locked section, the other was returned without its connection, and      *)
(* pool_size is down to 0                                                  *)
KilledNeverReturnsWitness ==
    /\ nextId = 3
    /\ pools[1].pool_size = 0
    /\ "drop" \in under_lock
    /\ new_conn[1].queue = 1
    /\ new_conn[1].pc = "idle"

(* ------------------------ inside the locked section -------------------- *)
(* C28: the pool mutex is never held while a handle is destroyed: in       *)
(* check_in, a ReducePoolSize sentinel consuming the handle included, and  *)
(* in remove_conn the destructor runs only after the lock was released, so *)
(* that it can never wait for a lock its own thread holds.                 *)
NoDropUnderLock ==
    /\ "drop" \notin under_lock
    /\ "lock" \notin under_lock

(* the step calls the connection factory of pool p or gets its answer *)
FactoryCalled(p) ==
    (new_conn[p].pc = "connecting") /= (new_conn'[p].pc = "connecting")

(* the step sends a RequestNewConn on the creation channel of pool p *)
RequestSent(p) == new_conn'[p].queue > new_conn[p].queue

(* C29: the pool mutex is never held during a call to the connection       *)
(* factory nor during a send of RequestNewConn, in any interleaving of     *)
(* checkouts, handle drops and the creation loop: no locked section sends, *)
(* and a step that calls the factory or sends is not a locked section, as  *)
(* it leaves what the mutex guards alone.                                  *)
NoLockAcrossFactoryOrSend ==
    /\ []("send" \notin under_lock)
    /\ [][\A p \in PoolIds :
             (FactoryCalled(p) \/ RequestSent(p)) =>
                 UNCHANGED <<pools[p].idle, pools[p].waiting, under_lock>>]_vars

(* C29 witness: both connections are gone, the latest one destroyed inside *)
(* a locked section; the factory is being called for the third time, on    *)
(* the request that the destructor of a handle without connection sent     *)
NoLockAcrossFactoryOrSendWitness ==
    /\ "drop" \in under_lock
    /\ pools[1].pool_size = 0
    /\ new_conn[1].queue = 0
    /\ new_conn[1].pc = "connecting"
    /\ nextId = 3

(* ------------------------- check_in and waiters ------------------------ *)
(* the i-th waiter of pool p is a checkout whose receiver is alive *)
LiveAt(p, i) ==
    /\ pools[p].waiting[i].kind = "Checkout"
    /\ ReceiverAlive(pools[p].waiting[i].ch)

(* the step is the locked section of a check_in of handle h into pool p,   *)
(* in a caller's thread or in the creation task                            *)
CheckInStep(p, h) ==
    \/ \E c \in Callers :
          /\ callers[c].st = "checking_in"
          /\ callers[c].pool = p
          /\ callers[c].h = h
          /\ callers'[c].st /= "checking_in"
    \/ /\ new_conn[p].pc = "checking_in"
       /\ new_conn[p].h = h
       /\ new_conn'[p].pc /= "checking_in"

(* C30: a handle arriving at check_in, returned or fresh, is never placed  *)
(* in idle while a Checkout waiter whose receiver is alive is queued: it   *)
(* goes to the earliest such waiter, unless a ReducePoolSize sentinel      *)
(* ahead of that waiter consumes it.                                       *)
HandleGoesToEarliestWaiter ==
    [][\A p \in PoolIds : \A k \in ConnIds :
          LET w == pools[p].waiting
              live == {i \in 1 .. Len(w) : LiveAt(p, i)}
              first == CHOOSE i \in live : \A j \in live : i <= j
              ahead == {j \in 1 .. (first - 1) : w[j].kind = "ReducePoolSize"}
              sentinel == CHOOSE j \in ahead : \A x \in ahead : j <= x
          IN  ((\E h \in {callers[c].h : c \in Callers} \cup {new_conn[p].h} :
                   h.id = k /\ CheckInStep(p, h)) /\ live /= {}) =>
                  /\ pools'[p].idle = pools[p].idle
                  /\ \A q \in PoolIds : \A i \in 1 .. Len(pools'[q].idle) :
                        pools'[q].idle[i].id /= k
                  /\ IF ahead = {}
                     THEN /\ chan'[w[first].ch] /= NoHandle
                          /\ chan'[w[first].ch].id = k
                          /\ pools'[p].waiting = SubSeq(w, first + 1, Len(w))
                     ELSE /\ chan' = chan
                          /\ Places(k)' = 0
                          /\ pools'[p].waiting = SubSeq(w, sentinel + 1, Len(w))]_vars

(* C30 witness: a returned handle sits in the channel of the waiter that   *)
(* was first in the queue, the waiter behind it is still queued, and       *)
(* nothing is idle                                                         *)
HandleGoesToEarliestWaiterWitness ==
    /\ Len(pools[1].waiting) = 1
    /\ LiveAt(1, 1)
    /\ pools[1].idle = <<>>
    /\ \E ch \in Chans :
          /\ chan[ch] /= NoHandle
          /\ chan[ch].checked_out_at
          /\ ReceiverAlive(ch)
          /\ ch /= pools[1].waiting[1].ch
    /\ pools[1].in_flight_connections = 1
    /\ nextId = 2

(* --------------------------- abandoned waiters ------------------------- *)
(* the step is a check_out by caller c on the shared pool *)
CheckOutStep(c) == callers[c].st = "free" /\ callers'[c].st /= "free"

(* the entries of a queue, as a set *)
Entries(w) == {w[i] : i \in 1 .. Len(w)}

(* C31: the waiter entry of a checkout stays in the queue when its future  *)
(* times out or is dropped, until a check_in pops it; until then it counts *)
(* toward the reservation limit: a check_out that finds nothing idle and   *)
(* more entries than the limit, live or not, is rejected, and only such a  *)
(* check_out is.                                                           *)
AbandonedWaitersCount ==
    [][/\ \A p \in PoolIds :
             (\E e \in Entries(pools[p].waiting) :
                 e.kind = "Checkout" /\ e \notin Entries(pools'[p].waiting))
                 => \E h \in {callers[c].h : c \in Callers} \cup {new_conn[p].h} :
                        CheckInStep(p, h)
       /\ \A c \in Callers :
             CheckOutStep(c) =>
                 ((callers'[c].st = "failed" /\ callers'[c].res = "QueueLimitReached")
                     <=> (/\ pools[1].idle = <<>>
                          /\ pools[1].wait_queue_limit /= None
                          /\ Len(pools[1].waiting) > pools[1].wait_queue_limit))]_vars

(* C31 witness: no connection exists yet; the first caller queued a        *)
(* checkout, dropped it, called check_out again and was rejected for the   *)
(* entry it left behind, while nobody is waiting                           *)
AbandonedWaitersCountWitness ==
    /\ nextId = 1
    /\ new_conn[1].pc = "idle"
    /\ Len(pools[1].waiting) = 1
    /\ pools[1].waiting[1].kind = "Checkout"
    /\ ~ReceiverAlive(pools[1].waiting[1].ch)
    /\ callers[1].st = "failed"
    /\ callers[1].res = "QueueLimitReached"
    /\ \A c \in Callers \ {1} : callers[c].st = "free"

(* ------------------------------ remove_conn ---------------------------- *)
(* the step is a remove_conn on pool p: it takes a handle out of idle      *)
(* without handing it to a caller, or it queues a sentinel                 *)
RemoveConnStep(p) ==
    \/ Len(pools'[p].idle) < Len(pools[p].idle) /\ callers' = callers
    \/ Sentinels(p)' > Sentinels(p)

(* C32: remove_conn. With idle non-empty exactly one idle handle is        *)
(* removed and killed: pool_size goes down by one and the waiter queue is  *)
(* unchanged. With idle empty exactly one ReducePoolSize sentinel is       *)
(* appended to the back of the queue, and idle, pool_size and in_flight    *)
(* are unchanged; the sentinel stays queued until a check_in takes it.     *)
RemoveConnEffect ==
    [][\A p \in PoolIds :
          /\ RemoveConnStep(p) =>
                LET pl == pools[p] IN
                /\ pools'[p].in_flight_connections = pl.in_flight_connections
                /\ IF pl.idle /= <<>>
                   THEN /\ pools'[p].idle = SubSeq(pl.idle, 1, Len(pl.idle) - 1)
                        /\ \A k \in ConnIds : k = pl.idle[Len(pl.idle)].id => Places(k)' = 0
                        /\ pools'[p].pool_size = pl.pool_size - 1
                        /\ pools'[p].waiting = pl.waiting
                   ELSE /\ pools'[p].waiting = Append(pl.waiting, ReducePoolSize)
                        /\ pools'[p].idle = pl.idle
                        /\ pools'[p].pool_size = pl.pool_size
          /\ Sentinels(p)' < Sentinels(p) =>
                \E h \in {callers[c].h : c \in Callers} \cup {new_conn[p].h} :
                    CheckInStep(p, h)]_vars

(* C32 witness: both connections were idle and nobody was busy when        *)
(* remove_conn killed one of them                                          *)
RemoveConnEffectWitness ==
    /\ "drop" \in under_lock
    /\ nextId = 3
    /\ Len(pools[1].idle) = 1
    /\ pools[1].pool_size = 1
    /\ pools[1].waiting = <<>>
    /\ new_conn[1].pc = "idle"
    /\ \A c \in Callers : callers[c].st = "free"

(* --------------------------- multi-node try order ---------------------- *)
MaxSiblings == 4

(* the inner checkout on the sibling whose turn it is fails, for whatever  *)
(* reason: the loop counts the attempt off and goes on                     *)
TryFails(c) ==
    LET b == callers[c]
        idx == sibling(b.cnt, b.attempts_left, nodes)
    IN  /\ b.st = "mc_try"
        /\ b.attempts_left > 0
        /\ callers' = [callers EXCEPT ![c] =
                          [b EXCEPT !.tried = Append(@, idx + 1), !.attempts_left = @ - 1]]
        /\ UNCHANGED <<pools, new_conn, chan, count, flavour, first_tries, under_lock, owner,
                       nodes, nextId>>

(* no attempt is left: the checkout fails with NoConnection *)
TryGivesUp(c) ==
    LET b == callers[c] IN
    /\ b.st = "mc_try"
    /\ b.attempts_left = 0
    /\ callers' = [callers EXCEPT ![c] =
                      [FreeCaller EXCEPT !.st = "failed", !.res = "NoConnection",
                                         !.elapsed = b.elapsed, !.timeout = b.timeout,
                                         !.tried = b.tried]]
    /\ UNCHANGED <<pools, new_conn, chan, count, flavour, first_tries, under_lock, owner,
                   nodes, nextId>>

(* a pool per node over 1 .. MaxSiblings inner pools, on none of which a   *)
(* checkout succeeds                                                       *)
TryInit ==
    /\ flavour = "PerNode"
    /\ nodes \in 1 .. MaxSiblings
    /\ pools = [p \in PoolIds |-> new_pool(0, None)]
    /\ new_conn = [p \in PoolIds |-> [queue |-> 0, pc |-> "idle", attempt |-> 0, h |-> NoHandle]]
    /\ callers = [c \in Callers |-> FreeCaller]
    /\ chan = [ch \in Chans |-> NoHandle]
    /\ count = 0
    /\ first_tries = [p \in PoolIds |-> 0]
    /\ nextId = 1
    /\ under_lock = {}
    /\ dropped = FALSE
    /\ env = NotPresent
    /\ connect_to = NotRead
    /\ config = Config(MinDesired, None, 1, nodes, "LiFo")
    /\ built = Built(nodes, MinDesired, None)

TryNext ==
    \/ \E c \in Callers : \E t \in {None, 0} : MultiCheckOut(c, t)
    \/ \E c \in Callers : TryFails(c)
    \/ \E c \in Callers : TryGivesUp(c)
    \/ \E c \in Callers : DropFuture(c)

TrySpec == TryInit /\ [][TryNext]_vars

(* C33 as stated: multi-node try order. A checkout that took the counter   *)
(* value k on K inner pools targets, at its attempt-th try (attempt = 0,   *)
(* 1, ..., K-1), the inner pool of index (k + attempt) mod K: after a      *)
(* failure the next sibling in increasing index order.                     *)
TryOrderIncreasing ==
    \A c \in Callers :
        callers[c].st = "mc_try" =>
            \A i \in 1 .. Len(callers[c].tried) :
                callers[c].tried[i] = ((callers[c].cnt + (i - 1)) % nodes) + 1

(* C33 amended: the attempt-th try targets the inner pool of index         *)
(* (k + K - attempt) mod K: the first try is pool k mod K, and after a     *)
(* failure the next sibling in decreasing index order is tried.            *)
TryOrderDecreasing ==
    \A c \in Callers :
        callers[c].st = "mc_try" =>
            \A i \in 1 .. Len(callers[c].tried) :
                callers[c].tried[i] = ((callers[c].cnt + nodes - (i - 1)) % nodes) + 1

(* C33 witness: with counter value 0 on three pools the first pool, then   *)
(* the third, then the second were tried                                   *)
TryOrderDecreasingWitness ==
    \E c \in Callers :
        /\ nodes = 3
        /\ callers[c].st = "mc_try"
        /\ callers[c].cnt = 0
        /\ callers[c].tried = <<1, 3, 2>>

(* ----------------------------- serial creation ------------------------- *)
(* C34: serial creation. The one creation task of an inner pool takes a    *)
(* RequestNewConn from the channel only when the creation it started       *)
(* before has ended, so at most one factory call or backoff sleep is in    *)
(* progress; it takes one request at a time and begins with attempt 1; a   *)
(* handle exists in the task only between the factory's success and its    *)
(* check_in; meanwhile requests queue up in the channel.                   *)
SerialCreation ==
    /\ [][\A p \in PoolIds :
             new_conn'[p].queue < new_conn[p].queue =>
                 /\ new_conn[p].pc = "idle"
                 /\ new_conn'[p].pc = "connecting"
                 /\ new_conn'[p].attempt = 1
                 /\ new_conn'[p].queue = new_conn[p].queue - 1]_vars
    /\ [](\A p \in PoolIds :
             /\ new_conn[p].pc \in {"idle", "connecting", "backoff", "checking_in"}
             /\ (new_conn[p].h /= NoHandle) <=> (new_conn[p].pc = "checking_in")
             /\ (new_conn[p].attempt >= 1) <=> (new_conn[p].pc /= "idle"))

(* C34 witness: the creation task sleeps in the backoff of its first       *)
(* request while the second request is queued in the channel               *)
SerialCreationWitness ==
    /\ new_conn[1].pc = "backoff"
    /\ new_conn[1].queue = 1
    /\ nextId = 1

(* -------------------------------- backoff ------------------------------ *)
MaxRetries == 3

MaxDelay == 3

(* a backoff strategy: what get_next_backoff answers to each attempt       *)
(* number, a delay or None                                                 *)
Strategies == [1 .. MaxRetries -> {None} \cup (1 .. MaxDelay)]

(* BackoffStrategy::get_next_backoff as called by the creation loop *)
get_next_backoff(strategy, attempt) == strategy[attempt]

(* mutant of FactoryErrConsults: the strategy is asked about the first     *)
(* attempt at every failure                                                *)
FactoryErrConsults_first(p) ==
    LET answer == get_next_backoff(config.backoff_strategy, 1) IN
    /\ new_conn[p].pc = "connecting"
    /\ new_conn[p].attempt <= MaxRetries
    /\ new_conn' = [new_conn EXCEPT ![p].attempt = @ + 1,
                                    ![p].pc = IF answer /= None THEN "backoff" ELSE "connecting",
                                    ![p].delays = Append(@, answer)]
    /\ UNCHANGED <<pools, callers, chan, count, flavour, first_tries, under_lock, owner, nodes,
                   nextId>>

(* the factory fails: the loop asks the configured strategy about this     *)
(* attempt, sleeps for the delay it names or retries at once, and goes on  *)
(* with the next attempt number; delays keeps the answers                  *)
FactoryErrConsults(p) ==
    LET answer == get_next_backoff(config.backoff_strategy, new_conn[p].attempt) IN
    /\ new_conn[p].pc = "connecting"
    /\ new_conn[p].attempt <= MaxRetries
    /\ new_conn' = [new_conn EXCEPT ![p].attempt = @ + 1,
                                    ![p].pc = IF answer /= None THEN "backoff" ELSE "connecting",
                                    ![p].delays = Append(@, answer)]
    /\ UNCHANGED <<pools, callers, chan, count, flavour, first_tries, under_lock, owner, nodes,
                   nextId>>

(* a shared pool whose Config names a backoff strategy, and its creation   *)
(* loop                                                                    *)
BackoffInit ==
    \E desired \in MinDesired .. MaxDesired : \E strategy \in Strategies :
        /\ flavour = "Shared"
        /\ nodes = 1
        /\ pools = [p \in PoolIds |-> new_pool(IF p <= 1 THEN desired ELSE 0, None)]
        /\ new_conn = [p \in PoolIds |->
                          [queue |-> IF p <= 1 THEN desired ELSE 0, pc |-> "idle",
                           attempt |-> 0, h |-> NoHandle, delays |-> <<>>]]
        /\ callers = [c \in Callers |-> FreeCaller]
        /\ chan = [ch \in Chans |-> NoHandle]
        /\ count = 0
        /\ first_tries = [p \in PoolIds |-> 0]
        /\ nextId = 1
        /\ under_lock = {}
        /\ dropped = FALSE
        /\ env = NotPresent
        /\ connect_to = NotRead
        /\ config = Config(desired, None, 1, 1, "LiFo") @@ [backoff_strategy |-> strategy]
        /\ built = Built(1, desired, None)

BackoffNext ==
    \/ \E p \in PoolIds : StartCreate(p)
    \/ \E p \in PoolIds : FactoryOk(p)
    \/ \E p \in PoolIds : FactoryErrConsults(p)
    \/ \E p \in PoolIds : BackoffElapsed(p)
    \/ \E p \in PoolIds : CreatorCheckIn(p)

BackoffSpec == BackoffInit /\ [][BackoffNext]_vars

(* the strategy names a delay for every attempt, each longer than the one  *)
(* before                                                                  *)
StrictlyIncreasing(strategy) ==
    /\ \A a \in DOMAIN strategy : strategy[a] /= None
    /\ \A a, b \in DOMAIN strategy : a < b => strategy[a] < strategy[b]

(* the answers the strategy gave within the request the loop is working on *)
CurrentDelays(p) ==
    LET d == new_conn[p].delays
    IN  SubSeq(d, Len(d) - (new_conn[p].attempt - 1) + 1, Len(d))

(* C35: backoff law. Within one creation request the strategy is consulted *)
(* once per factory failure, with the attempt numbers 1, 2, 3, ... in      *)
(* order, starting again at 1 for each request; so with a strictly         *)
(* increasing strategy the delays between successive attempts never        *)
(* decrease.                                                               *)
BackoffLaw ==
    \A p \in PoolIds :
        new_conn[p].pc \in {"connecting", "backoff"} =>
            LET d == CurrentDelays(p) IN
            /\ Len(new_conn[p].delays) >= new_conn[p].attempt - 1
            /\ \A i \in 1 .. Len(d) : d[i] = config.backoff_strategy[i]
            /\ StrictlyIncreasing(config.backoff_strategy) =>
                   \A i, j \in 1 .. Len(d) : i <= j => d[i] <= d[j]

(* C35 witness: with a strictly increasing strategy the second request has *)
(* failed three times, after the first request had failed once             *)
BackoffLawWitness ==
    /\ StrictlyIncreasing(config.backoff_strategy)
    /\ nextId = 2
    /\ new_conn[1].pc = "backoff"
    /\ new_conn[1].attempt = 4
    /\ Len(new_conn[1].delays) = 4

(* ---------------------- the end of the creation loop ------------------- *)
(* Drop of InnerPool: the idle handles and the queued senders go with it *)
inner_pool_dropped(pl) == [pl EXCEPT !.idle = <<>>, !.waiting = <<>>]

(* the owner drops the pool while the creation task is inside an attempt:  *)
(* the strong reference the attempt took is now the last one. No handle is *)
(* out and no check_in is under way.                                       *)
OwnerDrops ==
    /\ ~dropped
    /\ \E p \in PoolIds : new_conn[p].pc \in {"connecting", "backoff"}
    /\ \A p \in PoolIds : new_conn[p].pc /= "checking_in"
    /\ \A c \in Callers : callers[c].st \in {"free", "waiting", "failed"} /\ ~callers[c].multi
    /\ \A ch \in Chans : chan[ch] = NoHandle
    /\ dropped' = TRUE
    /\ new_conn' = [p \in PoolIds |->
                       IF new_conn[p].pc = "connecting"
                       THEN [new_conn[p] EXCEPT !.pc = "connecting_last"]
                       ELSE IF new_conn[p].pc = "backoff"
                       THEN [new_conn[p] EXCEPT !.pc = "backoff_last"]
                       ELSE new_conn[p]]
    /\ UNCHANGED <<pools, callers, chan, count, flavour, first_tries, nodes, nextId,
                   under_lock, env, connect_to, config, built>>

(* the factory succeeds for an attempt that holds the last reference: the  *)
(* closure ends, the pool is destroyed, and the fresh handle, dropped by   *)
(* the stream's map, finds no pool and terminates its connection           *)
FactoryOkLast(p) ==
    /\ new_conn[p].pc = "connecting_last"
    /\ nextId <= MaxConns
    /\ nextId' = nextId + 1
    /\ new_conn' = [new_conn EXCEPT ![p].pc = "idle", ![p].attempt = 0]
    /\ pools' = [pools EXCEPT ![p] = inner_pool_dropped(@)]
    /\ UNCHANGED <<callers, chan, count, flavour, first_tries, under_lock, owner, nodes>>

(* the factory fails for such an attempt: with a backoff the delay keeps   *)
(* the reference; without, the loop continues at once, finds the pool gone *)
(* and fails, which ends the stream                                        *)
FactoryErrLast(p) ==
    /\ new_conn[p].pc = "connecting_last"
    /\ \E backoff \in BOOLEAN :
          IF backoff
          THEN /\ new_conn' = [new_conn EXCEPT ![p].attempt = @ + 1, ![p].pc = "backoff_last"]
               /\ UNCHANGED pools
          ELSE /\ new_conn' = [new_conn EXCEPT ![p].attempt = 0, ![p].pc = "ended",
                                               ![p].queue = 0]
               /\ pools' = [pools EXCEPT ![p] = inner_pool_dropped(@)]
    /\ UNCHANGED <<callers, chan, count, flavour, first_tries, under_lock, owner, nodes, nextId>>

(* the delay is over: the reference goes, the pool with it, the next turn  *)
(* of the loop fails with PoolIsGoneError and the stream ends              *)
BackoffElapsedLast(p) ==
    /\ new_conn[p].pc = "backoff_last"
    /\ new_conn' = [new_conn EXCEPT ![p].attempt = 0, ![p].pc = "ended", ![p].queue = 0]
    /\ pools' = [pools EXCEPT ![p] = inner_pool_dropped(@)]
    /\ UNCHANGED <<callers, chan, count, flavour, first_tries, under_lock, owner, nodes, nextId>>

StreamEnds_drains(p) ==
    /\ Gone
    /\ p <= nodes
    /\ new_conn[p].pc = "idle"
    /\ new_conn[p].queue = 0
    /\ new_conn' = [new_conn EXCEPT ![p].pc = "ended"]
    /\ UNCHANGED <<pools, callers, chan, count, flavour, first_tries, under_lock, owner, nodes,
                   nextId>>

(* the pool is gone and the task is between requests: the next message     *)
(* finds no pool, or the closed channel is empty; the stream ends          *)
StreamEnds(p) ==
    /\ Gone
    /\ p <= nodes
    /\ new_conn[p].pc = "idle"
    /\ new_conn' = [new_conn EXCEPT ![p].pc = "ended", ![p].queue = 0]
    /\ UNCHANGED <<pools, callers, chan, count, flavour, first_tries, under_lock, owner, nodes,
                   nextId>>

(* one pool, its callers and its creation loop, and an owner who may drop  *)
(* the pool at any time                                                    *)
EndNext ==
    \/ \E c \in Pair : \E t \in {None, 0} : CheckOut(c, t)
    \/ \E c \in Pair : Receive(c)
    \/ \E c \in Pair : TimeoutFires(c)
    \/ \E c \in Pair : DropFuture(c)
    \/ \E c \in Pair : \E broken \in BOOLEAN : DropHandle(c, broken)
    \/ \E c \in Pair : CheckInLocked(c)
    \/ \E p \in PoolIds : StartCreate(p)
    \/ \E p \in PoolIds : FactoryOk(p)
    \/ \E p \in PoolIds : FactoryErr(p)
    \/ \E p \in PoolIds : BackoffElapsed(p)
    \/ \E p \in PoolIds : CreatorCheckIn(p)
    \/ DropPool
    \/ OwnerDrops
    \/ \E p \in PoolIds : FactoryOkLast(p)
    \/ \E p \in PoolIds : FactoryErrLast(p)
    \/ \E p \in PoolIds : BackoffElapsedLast(p)
    \/ \E p \in PoolIds : StreamEnds(p)
    \/ \E c \in Pair : Canceled(c)

(* the executor runs the creation task: a factory call returns, a delay    *)
(* elapses, the stream is polled; and it runs the tasks of the pending     *)
(* checkouts, which see their sender go                                    *)
EndFairness ==
    /\ \A p \in PoolIds : WF_vars(FactoryOkLast(p) \/ FactoryErrLast(p))
    /\ \A p \in PoolIds : WF_vars(BackoffElapsedLast(p))
    /\ \A p \in PoolIds : WF_vars(StreamEnds(p))
    /\ \A c \in Callers : WF_vars(Canceled(c))

EndSpec == CreateInit /\ [][EndNext]_vars /\ EndFairness

(* the step starts a call of the factory of pool p *)
FactoryCallStarts(p) ==
    /\ new_conn'[p].pc \in {"connecting", "connecting_last"}
    /\ \/ new_conn[p].pc \in {"idle", "backoff", "backoff_last"}
       \/ new_conn'[p].attempt /= new_conn[p].attempt

(* C36: creation-loop termination. Once the last strong reference to the   *)
(* inner pool is dropped no factory call is started any more, and the      *)
(* creation loop ends, also when requests are still queued and when the    *)
(* factory was failing and a retry was pending as the owner let go.        *)
CreationLoopEnds ==
    /\ [][\A p \in PoolIds : Gone => ~FactoryCallStarts(p)]_vars
    /\ [][\A p \in PoolIds : new_conn[p].pc = "ended" => new_conn'[p].pc = "ended"]_vars
    /\ dropped ~> Gone
    /\ Gone ~> (\A p \in PoolIds : p <= nodes => new_conn[p].pc = "ended")

(* C36 witness: the stream has ended after the owner dropped the pool      *)
(* during the backoff that followed a failed first attempt, with the       *)
(* second request still queued                                             *)
CreationLoopEndsWitness ==
    /\ Gone
    /\ new_conn[1].pc = "ended"
    /\ nextId = 1
    /\ pools[1].desired_pool_size = 2
    /\ pools[1].pool_size = 0
    /\ \E c \in Callers : callers[c].st = "failed" /\ callers[c].res = "NoConnection"

(* ----------------------- growing the pool by hand ---------------------- *)
AddNewConnection_twice(p) ==
    /\ p <= nodes
    /\ ~dropped
    /\ new_conn[p].queue < MaxQueuedRequests
    /\ new_conn' = [new_conn EXCEPT ![p].queue = @ + 2]
    /\ UNCHANGED <<pools, callers, chan, count, flavour, first_tries, under_lock, owner, nodes,
                   nextId>>

(* Pool::add_new_connection: one more RequestNewConn on the channel *)
AddNewConnection(p) ==
    /\ p <= nodes
    /\ ~dropped
    /\ new_conn[p].queue < MaxQueuedRequests
    /\ new_conn' = [new_conn EXCEPT ![p].queue = @ + 1]
    /\ UNCHANGED <<pools, callers, chan, count, flavour, first_tries, under_lock, owner, nodes,
                   nextId>>

(* a pool of MinDesired to MaxDesired connections that is used, shrunk     *)
(* with remove_conn and grown with add_new_connection                      *)
SizeInit == CreateInit

SizeNext ==
    \/ \E c \in Pair : \E t \in {None, 0} : CheckOut(c, t)
    \/ \E c \in Pair : Receive(c)
    \/ \E c \in Pair : TimeoutFires(c)
    \/ \E c \in Pair : DropFuture(c)
    \/ \E c \in Pair : \E broken \in BOOLEAN : DropHandle(c, broken)
    \/ \E c \in Pair : CheckInLocked(c)
    \/ \E p \in PoolIds : RemoveConn(p)
    \/ \E p \in PoolIds : AddNewConnection(p)
    \/ \E p \in PoolIds : StartCreate(p)
    \/ \E p \in PoolIds : FactoryOk(p)
    \/ \E p \in PoolIds : CreatorCheckIn(p)

SizeSpec == SizeInit /\ [][SizeNext]_vars

(* the connections pool p has or has asked for *)
SizeOrRequested(p) == pools[p].pool_size + Outstanding(p)

(* the step is an add_new_connection call on pool p *)
AddStep(p) ==
    /\ new_conn'[p].queue > new_conn[p].queue
    /\ pools'[p] = pools[p]
    /\ callers' = callers

(* C37 as stated: pool_size is at most desired_pool_size plus the number   *)
(* of outstanding creation requests, in every reachable state.             *)
SizeBound ==
    \A p \in PoolIds : pools[p].pool_size <= pools[p].desired_pool_size + Outstanding(p)

(* C37: pool_size plus the outstanding creation requests is                *)
(* desired_pool_size after construction; no checkout, return, defective    *)
(* drop or remove_conn raises the sum, and an add_new_connection call      *)
(* raises it by exactly one.                                               *)
SizeBoundWithAdds ==
    /\ \A p \in PoolIds : SizeOrRequested(p) = pools[p].desired_pool_size
    /\ [][\A p \in PoolIds :
             IF AddStep(p)
             THEN SizeOrRequested(p)' = SizeOrRequested(p) + 1
             ELSE SizeOrRequested(p)' <= SizeOrRequested(p)]_vars

(* C37 witness: a pool of one desired connection holds two after an        *)
(* add_new_connection call was served, and nothing is outstanding          *)
SizeBoundWithAddsWitness ==
    /\ pools[1].desired_pool_size = 1
    /\ pools[1].pool_size = 2
    /\ Outstanding(1) = 0
    /\ new_conn[1].pc = "idle"
    /\ Len(pools[1].idle) = 2

(* ------------------------------- stats --------------------------------- *)
(* InnerPool::stats: the four atomic counters as they are *)
stats(pl) ==
    [pool_size |-> pl.pool_size, in_flight |-> pl.in_flight_connections,
     waiting |-> pl.waiting_for_checkout, idle |-> pl.idle_connections]

(* C38: stats consistency. Whenever no pool operation is in progress, the  *)
(* idle counter that stats() reports equals the number of handles in idle  *)
(* and the waiting counter equals the length of the waiter queue.          *)
StatsConsistent ==
    Quiescent =>
        \A p \in PoolIds :
            /\ stats(pools[p]).idle = Len(pools[p].idle)
            /\ stats(pools[p]).waiting = Len(pools[p].waiting)

(* ----------------- fulfilment step by step: the counters --------------- *)
(* check_in under the lock up to the successful send: the waiters offered  *)
(* the handle are popped, no counter is written yet                        *)
check_in_sent(pl, managed) ==
    LET r == fulfill_loop(pl.waiting, managed, 0) IN [pl EXCEPT !.waiting = r.waiting]

(* the rest of a fulfilling check_in: fulfill's notify_checked_out, then   *)
(* notify_waiting_queue_length                                             *)
check_in_fulfilled(pl) ==
    notify_waiting_queue_length(notify_checked_out(pl), Len(pl.waiting))

(* the check_in of the handle ends in a successful send to a waiter *)
Fulfils(pl, managed) ==
    pl.waiting /= <<>> /\ fulfill_loop(pl.waiting, managed, 0).res = "fulfilled"

(* a thread is inside the locked part of a fulfilling check_in *)
LockHeld ==
    \/ \E c \in Callers : callers[c].st = "notifying"
    \/ \E p \in PoolIds : new_conn[p].pc = "notifying"

(* check_in in the thread of caller c, from the lock to the send *)
CheckInSends(c) ==
    LET b == callers[c]
        r == check_in(pools[b.pool], b.h)
    IN  /\ b.st = "checking_in"
        /\ Fulfils(pools[b.pool], b.h)
        /\ pools' = [pools EXCEPT ![b.pool] = check_in_sent(@, b.h)]
        /\ chan' = [chan EXCEPT ![r.ch] = r.managed]
        /\ callers' = [callers EXCEPT ![c].st = "notifying", ![c].h = NoHandle]
        /\ under_lock' = {}
        /\ UNCHANGED <<new_conn, count, flavour, first_tries, owner, nodes, nextId>>

(* the same thread goes on after the send and leaves check_in *)
CheckInNotifies(c) ==
    LET b == callers[c] IN
    /\ b.st = "notifying"
    /\ pools' = [pools EXCEPT ![b.pool] = check_in_fulfilled(@)]
    /\ callers' = [callers EXCEPT ![c] = FreeCaller]
    /\ UNCHANGED <<new_conn, chan, count, flavour, first_tries, under_lock, owner, nodes, nextId>>

(* check_in of the fresh handle in the creation task, from the lock to the *)
(* send                                                                    *)
CreatorSends(p) ==
    LET r == check_in(pools[p], new_conn[p].h) IN
    /\ new_conn[p].pc = "checking_in"
    /\ Fulfils(pools[p], new_conn[p].h)
    /\ pools' = [pools EXCEPT ![p] = check_in_sent(@, new_conn[p].h)]
    /\ chan' = [chan EXCEPT ![r.ch] = r.managed]
    /\ new_conn' = [new_conn EXCEPT ![p].pc = "notifying", ![p].h = NoHandle]
    /\ under_lock' = {}
    /\ UNCHANGED <<callers, count, flavour, first_tries, owner, nodes, nextId>>

(* the creation task goes on after the send and leaves check_in *)
CreatorNotifies(p) ==
    /\ new_conn[p].pc = "notifying"
    /\ pools' = [pools EXCEPT ![p] = check_in_fulfilled(@)]
    /\ new_conn' = [new_conn EXCEPT ![p].pc = "idle", ![p].attempt = 0]
    /\ UNCHANGED <<callers, chan, count, flavour, first_tries, under_lock, owner, nodes, nextId>>

(* the pool with every thread on its own: what happens under the lock      *)
(* waits for the lock, a receiver and a destructor's counter update do not *)
RaceNext ==
    \/ \E c \in Pair : \E t \in {None, 0} : ~LockHeld /\ CheckOut(c, t)
    \/ \E c \in Pair : Receive(c)
    \/ \E c \in Pair : TimeoutFires(c)
    \/ \E c \in Pair : DropFuture(c)
    \/ \E c \in Pair : \E broken \in BOOLEAN : DropHandle(c, broken)
    \/ \E c \in Pair : ~LockHeld /\ callers[c].st = "checking_in"
                          /\ ~Fulfils(pools[callers[c].pool], callers[c].h)
                          /\ CheckInLocked(c)
    \/ \E c \in Pair : ~LockHeld /\ CheckInSends(c)
    \/ \E c \in Pair : CheckInNotifies(c)
    \/ \E p \in PoolIds : ~LockHeld /\ RemoveConn(p)
    \/ \E p \in PoolIds : StartCreate(p)
    \/ \E p \in PoolIds : FactoryOk(p)
    \/ \E p \in PoolIds : ~LockHeld /\ new_conn[p].pc = "checking_in"
                             /\ ~Fulfils(pools[p], new_conn[p].h) /\ CreatorCheckIn(p)
    \/ \E p \in PoolIds : ~LockHeld /\ CreatorSends(p)
    \/ \E p \in PoolIds : CreatorNotifies(p)

RaceSpec == CreateInit /\ [][RaceNext]_vars

(* C39: the unsigned counters pool_size and in_flight are never            *)
(* decremented while they are 0: no step takes either of them beyond its   *)
(* value plus one, which is where a decrement at 0 lands.                  *)
CountersNeverWrap ==
    [][\A p \in PoolIds :
          /\ pools'[p].pool_size <= pools[p].pool_size + 1
          /\ pools'[p].in_flight_connections <= pools[p].in_flight_connections + 1]_vars

(* ------------------- pending checkouts of a dead pool ------------------ *)
(* a shared pool whose callers check out with or without a deadline, and   *)
(* which the owner may drop at any time                                    *)
CancelNext ==
    \/ \E c \in Pair : \E t \in {None, MaxTimeout} : CheckOut(c, t)
    \/ \E c \in Pair : Receive(c)
    \/ \E c \in Pair : TimeoutFires(c)
    \/ \E c \in Pair : DropFuture(c)
    \/ \E c \in Pair : \E broken \in BOOLEAN : DropHandle(c, broken)
    \/ \E c \in Pair : CheckInLocked(c)
    \/ \E p \in PoolIds : StartCreate(p)
    \/ \E p \in PoolIds : FactoryOk(p)
    \/ \E p \in PoolIds : CreatorCheckIn(p)
    \/ Tick
    \/ DropPool
    \/ \E c \in Pair : Canceled(c)

(* the executor polls a pending checkout whose sender was dropped *)
CancelFairness == \A c \in Callers : WF_vars(Canceled(c))

CancelSpec == CreateInit /\ [][CancelNext]_vars /\ CancelFairness

(* the checkout of caller c is pending and its deadline, if it has one, *)
(* has not come                                                          *)
PendingInTime(c) ==
    /\ callers[c].st = "waiting"
    /\ callers[c].timeout /= None => callers[c].age < callers[c].timeout

(* C40: when the inner pool is destroyed while Checkout waiters are queued *)
(* every pending checkout whose timeout has not fired resolves, and it     *)
(* resolves with NoConnection.                                             *)
PendingResolveNoConnection ==
    /\ [][\A c \in Callers :
             (Gone /\ PendingInTime(c) /\ callers'[c].st = "failed")
                 => callers'[c].res = "NoConnection"]_vars
    /\ \A c \in Callers :
          (Gone /\ callers[c].st = "waiting" /\ chan[callers[c].rx] = NoHandle)
              ~> (callers[c].st /= "waiting")

====
